---- MODULE Spec2Model ----
(***************************************************************************)
(* Model of the navigation layer of the AFK Journey data extractor         *)
(* (src/navigate.py): the template-matching wait, the frame-stability      *)
(* wait and the navigation routines built on them.                         *)
(*                                                                         *)
(* The program is single threaded.  Its control state is a call stack of   *)
(* frames [fn, pc]; the topmost frame takes the next step.  The game       *)
(* client, the clock and the template files are the environment: every     *)
(* capture returns an arbitrary frame, every clock reading is an arbitrary *)
(* value not smaller than the previous one, a template file may or may not *)
(* load and the game window may or may not be found.                       *)
(*                                                                         *)
(* Time is counted in ticks of one POLL_INTERVAL (0.2 s).  Match scores    *)
(* are counted in hundredths (0.85 is 85).                                 *)
(***************************************************************************)
EXTENDS Integers, Sequences, FiniteSets, TLC

VARIABLES
    now,      \* the clock read by time.time(), in ticks since the call began
    stack,    \* call stack, a sequence of frames [fn, pc]; the last is on top
    result,   \* how the top-level call ended: "none", "running", "ok" or an exception
    wfs,      \* arguments and locals of the wait_for_screen activation
    stab,     \* arguments and locals of the wait_for_stability activation
    home,     \* locals of the navigate_home activation
    rank,     \* arguments of the _navigate_to_ranking activation
    filt,     \* arguments of the apply_guild_filter activation
    entry,    \* the top-level call: [fn, mode]
    stale,    \* TRUE iff a click was issued after the most recent capture
    trace,    \* clicks issued and waits completed by the top-level call, in order
    system,   \* what platform.system() returns: "Windows" or "Linux"
    dev,      \* the capture device: handles open, acquired and released so far
    cap,      \* locals of the capture_window activation
    shot,     \* argument and locals of the save_debug_screenshot activation
    clk,      \* arguments and locals of the game_click activation
    pointer,  \* the clicks the pointer device was given, at screen positions
    disk,     \* the debug directory: whether it exists, and the files written
    calls,    \* the number of top-level calls of the capture layer so far
    det,      \* arguments and locals of the detect_card_positions activation
    run,      \* arguments, locals and effects of the cmd_scroll activation
    col,      \* arguments and locals of the scroll_and_collect activation
    prs       \* argument and outcome of the field parser called

\* the state of the navigation layer and of the capture layer
nav_vars == <<wfs, stab, home, rank, filt, stale, trace>>

capture_vars == <<system, dev, cap, shot, clk, pointer, disk, calls>>

\* the state of the card detection, the calibration run, the collection
\* loop and the field parsers
tool_vars == <<det, run, col, prs>>

vars == <<now, stack, result, entry, nav_vars, capture_vars, tool_vars>>

\* everything but the state of the tools
base_vars == <<now, stack, result, entry, nav_vars, capture_vars>>

----------------------------------------------------------------------------
(* Constants of the program *)

\* config.py: POLL_INTERVAL = 0.2 s, the unit of time of the model
POLL_INTERVAL == 1

\* navigate.py: wait_for_screen(..., confidence: float = 0.85), in hundredths
DEFAULT_CONFIDENCE == 85

\* config.py: STABILITY_THRESHOLD = 2.0 (mean absolute pixel difference)
STABILITY_THRESHOLD == 2

\* the fixed resolution of the game client, GAME_WIDTH x GAME_HEIGHT
GAME_WIDTH == 1920

GAME_HEIGHT == 1080

\* a width and a height the client area or a capture has when it is wrong
OtherWidth == 1280

OtherHeight == 720

(* Bounds of the model *)

\* wait_for_screen's default timeout (10.0 s in navigate.py), scaled to ticks
WAIT_TIMEOUT == 3

\* NAV_HOME_MAX_CLICKS, NAV_HOME_CHECK_TIMEOUT and FRAME_STABILITY_TIMEOUT are
\* imported by navigate.py from config; the claims hold for whatever value
\* they are given, the model gives them small ones (timeouts in ticks).
NAV_HOME_MAX_CLICKS == 2

NAV_HOME_CHECK_TIMEOUT == 1

FRAME_STABILITY_TIMEOUT == 3

\* the longest a capture, a template load or a click takes, and the longest
\* a sleep overshoots, in ticks
MaxStepTime == 1

\* the number of top-level calls of the capture layer in one session
MaxCalls == 2

----------------------------------------------------------------------------
(* The environment: templates, frames, scores *)

Templates ==
    { "TEMPLATE_WORLD_SCREEN", "TEMPLATE_GUILD_HALL", "TEMPLATE_GUILD_MEMBER_LIST",
      "TEMPLATE_BATTLE_MODES", "TEMPLATE_MODE_SCREEN", "TEMPLATE_RANKING_SCREEN" }

Modes ==
    { "afk_stages", "dream_realm", "supreme_arena", "arcane_labyrinth", "honor_duel" }

\* scores a screen can reach on its own template: 85 is exactly the default
\* confidence, 84 is just below it and above the custom confidence; any
\* other screen scores 0
Scores == {84, 85}

\* confidences a caller passes to wait_for_screen
Confidences == {70, DEFAULT_CONFIDENCE}

\* a frame is reduced to one pixel intensity: the differences 0, 1, 2, 3 occur
Pixels == {0, 1, 3}

\* what capture_window() can return: the screen shown, how well it matches
\* its own template, and its pixels
Frames == [shows : Templates \cup {"other"}, score : Scores, px : Pixels]

\* wait_for_stability reads only the pixels of a frame: its activation keeps,
\* of a capture, the pixels and the ordinal n of the capture (0: no capture)
NoFrame == [px |-> 0, n |-> 0]

\* the outcomes of capture_window(): RuntimeError when find_game_window()
\* does not find the window (found is FALSE), or any frame
capture_window ==
    {[found |-> FALSE, frame |-> [shows |-> "other", score |-> 0, px |-> 0]]}
        \cup {[found |-> TRUE, frame |-> f] : f \in Frames}

\* cv2.matchTemplate(screenshot, template, TM_CCOEFF_NORMED).max()
MatchTemplate(frame, template) ==
    IF frame.shows = template THEN frame.score ELSE 0

Abs(x) == IF x < 0 THEN -x ELSE x

\* cv2.absdiff(prev, curr).mean()
AbsDiffMean(prev, curr) == Abs(prev.px - curr.px)

Exceptions == {"TimeoutError", "FileNotFoundError", "RuntimeError"}

----------------------------------------------------------------------------
(* Arguments of the navigation routines *)

\* the arguments each navigate_to_<mode>_ranking passes to _navigate_to_ranking
RankingArgs(mode) ==
    CASE mode = "afk_stages" ->
            [click |-> "CLICK_AFK_STAGES", ranking |-> "CLICK_RANKING_AFK_STAGES",
             f1 |-> "CLICK_FILTER_1_AFK_STAGES", f2 |-> "CLICK_FILTER_2_AFK_STAGES"]
      [] mode = "dream_realm" ->
            [click |-> "CLICK_DREAM_REALM", ranking |-> "CLICK_RANKING_DREAM_REALM",
             f1 |-> "CLICK_FILTER_1_DREAM_REALM", f2 |-> "CLICK_FILTER_2_DREAM_REALM"]
      [] mode = "supreme_arena" ->
            [click |-> "CLICK_SUPREME_ARENA", ranking |-> "CLICK_RANKING_SUPREME_ARENA",
             f1 |-> "CLICK_FILTER_1_SUPREME_ARENA", f2 |-> "CLICK_FILTER_2_SUPREME_ARENA"]
      [] mode = "arcane_labyrinth" ->
            [click |-> "CLICK_ARCANE_LABYRINTH", ranking |-> "CLICK_RANKING_ARCANE_LABYRINTH",
             f1 |-> "CLICK_FILTER_1_ARCANE_LABYRINTH", f2 |-> "CLICK_FILTER_2_ARCANE_LABYRINTH"]
      [] mode = "honor_duel" ->
            [click |-> "CLICK_HONOR_DUEL", ranking |-> "CLICK_RANKING_HONOR_DUEL",
             f1 |-> "CLICK_FILTER_1_HONOR_DUEL", f2 |-> "CLICK_FILTER_2_HONOR_DUEL"]

NoArgs == [click |-> "none", ranking |-> "none", f1 |-> "none", f2 |-> "none"]

----------------------------------------------------------------------------
(* The call stack *)

Top == stack[Len(stack)]

At(fn, pc) == stack # <<>> /\ Top.fn = fn /\ Top.pc = pc

Front(s) == SubSeq(s, 1, Len(s) - 1)

HandlesAnyException(frame, exc) ==
    \/ frame.fn = "navigate_home" /\ frame.pc = "try_ret"
    \/ frame.fn = "save_debug_screenshot" /\ frame.pc = "try_ret" /\ exc = "RuntimeError"

HandlesTimeoutOnly(frame, exc) ==
    frame.fn = "navigate_home" /\ frame.pc = "try_ret" /\ exc = "TimeoutError"

\* the handlers: the try/except TimeoutError around the bounded check of
\* navigate_home and the try/except RuntimeError around the capture_window()
\* of save_debug_screenshot
Handles(frame, exc) ==
    \/ frame.fn = "navigate_home" /\ frame.pc = "try_ret" /\ exc = "TimeoutError"
    \/ frame.fn = "save_debug_screenshot" /\ frame.pc = "try_ret" /\ exc = "RuntimeError"

HandlerPc(frame) == "except"

\* the stack after exc has propagated out of the frames above s
RECURSIVE Unwind(_, _)
Unwind(s, exc) ==
    IF s = <<>> THEN <<>>
    ELSE IF Handles(s[Len(s)], exc)
         THEN [s EXCEPT ![Len(s)].pc = HandlerPc(s[Len(s)])]
         ELSE Unwind(Front(s), exc)

\* the top frame moves to pc
Goto(pc) ==
    /\ stack' = [stack EXCEPT ![Len(stack)].pc = pc]
    /\ result' = result

\* the top frame calls fn and will resume at ret
Call(fn, ret) ==
    /\ stack' = Append([stack EXCEPT ![Len(stack)].pc = ret], [fn |-> fn, pc |-> "start"])
    /\ result' = result

\* the top frame returns normally
Return ==
    /\ stack' = Front(stack)
    /\ result' = IF Len(stack) = 1 THEN "ok" ELSE result

\* the top frame raises exc
Raise(exc) ==
    /\ stack' = Unwind(Front(stack), exc)
    /\ result' = IF Unwind(Front(stack), exc) = <<>> THEN exc ELSE result

\* a completed wait, as the trace records it
WaitEvent(fn, template, timeout, outcome) ==
    [ev |-> fn, what |-> template, timeout |-> timeout, outcome |-> outcome,
     fresh |-> ~stale]

ClickEvent(target) ==
    [ev |-> "click", what |-> target, timeout |-> 0, outcome |-> "ok", fresh |-> FALSE]

----------------------------------------------------------------------------
(* The messages of the exceptions navigate.py raises: the text and the *)
(* values formatted into it                                           *)

NoMessage == [text |-> "none", template |-> "none", timeout |-> 0]

\* f"Template image not found or unreadable: {template_path}"
MissingMessage(template) ==
    [text |-> "Template image not found or unreadable", template |-> template,
     timeout |-> 0]

TimeoutMessageUnnamed(template, timeout) ==
    [text |-> "Template not found within", template |-> "none", timeout |-> timeout]

\* f"Template '{template_path}' not found within {timeout}s"
TimeoutMessage(template, timeout) ==
    [text |-> "Template not found within", template |-> template, timeout |-> timeout]

\* f"Frame stability not reached within {timeout}s (threshold=...)"
StabilityMessage(timeout) ==
    [text |-> "Frame stability not reached within", template |-> "none",
     timeout |-> timeout]

\* the message of a RuntimeError raised by capture.py passes through unchanged
CaptureMessage == [text |-> "capture_window", template |-> "none", timeout |-> 0]

----------------------------------------------------------------------------
(* game_click *)

\* game_click(*target): find_game_window(), then pyautogui.click at the
\* offset position; the top frame resumes at pc.  find_game_window() raises
\* RuntimeError when the window is not found, and then nothing is clicked.
game_click(target, pc) ==
    \E found \in BOOLEAN, d \in 0..MaxStepTime :
        /\ now' = now + d
        /\ IF found
           THEN /\ trace' = Append(trace, ClickEvent(target))
                /\ stale' = TRUE
                /\ Goto(pc)
           ELSE /\ Raise("RuntimeError")
                /\ UNCHANGED <<trace, stale>>

----------------------------------------------------------------------------
(* wait_for_screen *)

\* prev, the value returned (ret) and, for the record, the initial capture
\* (first), the numbers of captures, of sleeps and of polls found unstable,
\* and the message of the exception it raised
NoStab ==
    [timeout |-> 0, start |-> 0, first |-> NoFrame, prev |-> NoFrame,
     ret |-> NoFrame, captures |-> 0, sleeps |-> 0, unstable |-> 0,
     outcome |-> "none", msg |-> NoMessage]

\* the arguments, start, the score of the latest poll and, for the record,
\* whether the template loaded, whether the first poll matched (firstHit),
\* the numbers of captures, of sleeps and of matching polls (hits), the
\* durations slept and the message of the exception it raised
NoWfs ==
    [template |-> "none", timeout |-> 0, confidence |-> 0, start |-> 0,
     loaded |-> "unknown", score |-> -1, firstHit |-> FALSE, captures |-> 0,
     sleeps |-> 0, hits |-> 0, slept |-> {}, outcome |-> "none",
     msg |-> NoMessage]

\* a caller's step: the activations of the waits it called are gone
ForgetWaits == wfs' = NoWfs /\ stab' = NoStab

\* the activation record of wait_for_screen(template, timeout, confidence)
WfsArgs(template, timeout, confidence) ==
    [NoWfs EXCEPT !.template = template, !.timeout = timeout,
                  !.confidence = confidence, !.outcome = "running"]

\* the top frame calls wait_for_screen and will resume at ret
CallWfs(template, timeout, confidence, ret) ==
    /\ Call("wait_for_screen", ret)
    /\ wfs' = WfsArgs(template, timeout, confidence)
    /\ stab' = NoStab

SleepArgNone(n) == 0

SleepArgBackoff(n) == POLL_INTERVAL * n

\* the duration wait_for_screen passes to time.sleep after its n-th capture
SleepArg(n) == POLL_INTERVAL

\* start = time.time()
wait_for_screen_start ==
    /\ At("wait_for_screen", "start")
    /\ wfs' = [wfs EXCEPT !.start = now]
    /\ Goto("imread")
    /\ UNCHANGED <<now, stab, home, rank, filt, entry, stale, trace>>
    /\ UNCHANGED <<capture_vars, tool_vars>>

wait_for_screen_imread_unchecked ==
    /\ At("wait_for_screen", "imread")
    /\ \E loaded \in BOOLEAN, d \in 0..MaxStepTime :
        /\ now' = now + d
        /\ wfs' = [wfs EXCEPT !.loaded = IF loaded THEN "yes" ELSE "no"]
    /\ Goto("check")
    /\ UNCHANGED <<stab, home, rank, filt, entry, stale, trace>>
    /\ UNCHANGED <<capture_vars, tool_vars>>

\* template = cv2.imread(template_path); None raises FileNotFoundError
wait_for_screen_imread ==
    /\ At("wait_for_screen", "imread")
    /\ \E loaded \in BOOLEAN, d \in 0..MaxStepTime :
        /\ now' = now + d
        /\ IF loaded
           THEN /\ Goto("check")
                /\ wfs' = [wfs EXCEPT !.loaded = "yes"]
                /\ trace' = trace
           ELSE /\ Raise("FileNotFoundError")
                /\ wfs' = [wfs EXCEPT !.loaded = "no", !.outcome = "FileNotFoundError",
                                     !.msg = MissingMessage(wfs.template)]
                /\ trace' = Append(trace, WaitEvent("wait_for_screen", wfs.template,
                                                    wfs.timeout, "FileNotFoundError"))
    /\ UNCHANGED <<stab, home, rank, filt, entry, stale>>
    /\ UNCHANGED <<capture_vars, tool_vars>>

DeadlineOpenInclusive(t, start, timeout) == t - start <= timeout

\* time.time() - start < timeout
DeadlineOpen(t, start, timeout) == t - start < timeout

\* while time.time() - start < timeout: ...  else raise TimeoutError
wait_for_screen_check ==
    /\ At("wait_for_screen", "check")
    /\ IF DeadlineOpen(now, wfs.start, wfs.timeout)
       THEN /\ Goto("poll")
            /\ UNCHANGED <<wfs, trace>>
       ELSE /\ Raise("TimeoutError")
            /\ wfs' = [wfs EXCEPT !.outcome = "TimeoutError",
                                  !.msg = TimeoutMessage(wfs.template, wfs.timeout)]
            /\ trace' = Append(trace, WaitEvent("wait_for_screen", wfs.template,
                                                wfs.timeout, "TimeoutError"))
    /\ UNCHANGED <<now, stab, home, rank, filt, entry, stale>>
    /\ UNCHANGED <<capture_vars, tool_vars>>

PollMatchesStrict(s, confidence) == s > confidence

\* if result.max() >= confidence
PollMatches(s, confidence) == s >= confidence

wait_for_screen_poll_interruptible ==
    /\ At("wait_for_screen", "poll")
    /\ \E d \in 0..MaxStepTime, c \in capture_window :
        /\ now' = now + d
        /\ IF ~c.found
           THEN /\ Raise("RuntimeError")
                /\ wfs' = [wfs EXCEPT !.outcome = "RuntimeError", !.msg = CaptureMessage]
                /\ trace' = Append(trace, WaitEvent("wait_for_screen", wfs.template,
                                                    wfs.timeout, "RuntimeError"))
                /\ stale' = stale
           ELSE LET s == MatchTemplate(c.frame, wfs.template)
                    w == [wfs EXCEPT !.score = s,
                                     !.firstHit = IF wfs.captures = 0
                                                  THEN s >= wfs.confidence ELSE @,
                                     !.captures = @ + 1,
                                     !.hits = IF s >= wfs.confidence THEN @ + 1 ELSE @]
                IN  /\ stale' = FALSE
                    /\ IF ~DeadlineOpen(now + d, wfs.start, wfs.timeout)
                       THEN /\ Raise("TimeoutError")
                            /\ wfs' = [w EXCEPT !.outcome = "TimeoutError",
                                                !.msg = TimeoutMessage(wfs.template,
                                                                       wfs.timeout)]
                            /\ trace' = Append(trace,
                                    WaitEvent("wait_for_screen", wfs.template,
                                              wfs.timeout, "TimeoutError"))
                       ELSE IF PollMatches(s, wfs.confidence)
                       THEN /\ Return
                            /\ wfs' = [w EXCEPT !.outcome = "ok"]
                            /\ trace' = Append(trace,
                                    [WaitEvent("wait_for_screen", wfs.template,
                                               wfs.timeout, "ok") EXCEPT !.fresh = TRUE])
                       ELSE /\ Goto("sleep")
                            /\ wfs' = w
                            /\ trace' = trace
    /\ UNCHANGED <<stab, home, rank, filt, entry>>
    /\ UNCHANGED <<capture_vars, tool_vars>>

\* screenshot = capture_window(); result = cv2.matchTemplate(...);
\* if result.max() >= confidence: return
wait_for_screen_poll ==
    /\ At("wait_for_screen", "poll")
    /\ \E d \in 0..MaxStepTime, c \in capture_window :
        /\ now' = now + d
        /\ IF ~c.found
           THEN /\ Raise("RuntimeError")
                /\ wfs' = [wfs EXCEPT !.outcome = "RuntimeError", !.msg = CaptureMessage]
                /\ trace' = Append(trace, WaitEvent("wait_for_screen", wfs.template,
                                                    wfs.timeout, "RuntimeError"))
                /\ stale' = stale
           ELSE LET s == MatchTemplate(c.frame, wfs.template)
                    w == [wfs EXCEPT !.score = s,
                                     !.firstHit = IF wfs.captures = 0
                                                  THEN s >= wfs.confidence ELSE @,
                                     !.captures = @ + 1,
                                     !.hits = IF s >= wfs.confidence THEN @ + 1 ELSE @]
                IN  /\ stale' = FALSE
                    /\ IF PollMatches(s, wfs.confidence)
                       THEN /\ Return
                            /\ wfs' = [w EXCEPT !.outcome = "ok"]
                            /\ trace' = Append(trace,
                                    [WaitEvent("wait_for_screen", wfs.template,
                                               wfs.timeout, "ok") EXCEPT !.fresh = TRUE])
                       ELSE /\ Goto("sleep")
                            /\ wfs' = w
                            /\ trace' = trace
    /\ UNCHANGED <<stab, home, rank, filt, entry>>
    /\ UNCHANGED <<capture_vars, tool_vars>>

\* time.sleep(POLL_INTERVAL): returns no earlier than the interval
wait_for_screen_sleep ==
    /\ At("wait_for_screen", "sleep")
    /\ \E d \in 0..MaxStepTime :
        now' = now + SleepArg(wfs.captures) + d
    /\ wfs' = [wfs EXCEPT !.sleeps = @ + 1, !.slept = @ \cup {SleepArg(wfs.captures)}]
    /\ Goto("check")
    /\ UNCHANGED <<stab, home, rank, filt, entry, stale, trace>>
    /\ UNCHANGED <<capture_vars, tool_vars>>

----------------------------------------------------------------------------
(* wait_for_stability *)

\* the top frame calls wait_for_stability(timeout) and will resume at ret
CallStab(timeout, ret) ==
    /\ Call("wait_for_stability", ret)
    /\ stab' = [NoStab EXCEPT !.timeout = timeout, !.outcome = "running"]
    /\ wfs' = NoWfs

\* the n-th frame captured by the activation
Captured(f, n) == [px |-> f.px, n |-> n]

ReferenceInitial(s) == s.first

\* the frame the new capture is compared with, given the activation's
\* record before the capture
Reference(s) == s.prev

IsStableInclusive(diff) == diff <= STABILITY_THRESHOLD

\* if diff < STABILITY_THRESHOLD
IsStable(diff) == diff < STABILITY_THRESHOLD

\* start = time.time(); prev = capture_window()
wait_for_stability_start ==
    /\ At("wait_for_stability", "start")
    /\ \E d \in 0..MaxStepTime, c \in capture_window :
        /\ now' = now + d
        /\ IF c.found
           THEN /\ stab' = [stab EXCEPT !.start = now, !.prev = Captured(c.frame, 1),
                                        !.first = Captured(c.frame, 1), !.captures = 1]
                /\ stale' = FALSE
                /\ Goto("check")
                /\ trace' = trace
           ELSE /\ stab' = [stab EXCEPT !.start = now, !.outcome = "RuntimeError",
                                        !.msg = CaptureMessage]
                /\ stale' = stale
                /\ Raise("RuntimeError")
                /\ trace' = Append(trace, WaitEvent("wait_for_stability", "stability",
                                                    stab.timeout, "RuntimeError"))
    /\ UNCHANGED <<wfs, home, rank, filt, entry>>
    /\ UNCHANGED <<capture_vars, tool_vars>>

\* while time.time() - start < timeout: ...  else raise TimeoutError
wait_for_stability_check ==
    /\ At("wait_for_stability", "check")
    /\ IF DeadlineOpen(now, stab.start, stab.timeout)
       THEN /\ Goto("sleep")
            /\ UNCHANGED <<stab, trace>>
       ELSE /\ Raise("TimeoutError")
            /\ stab' = [stab EXCEPT !.outcome = "TimeoutError",
                                    !.msg = StabilityMessage(stab.timeout)]
            /\ trace' = Append(trace, WaitEvent("wait_for_stability", "stability",
                                                stab.timeout, "TimeoutError"))
    /\ UNCHANGED <<now, wfs, home, rank, filt, entry, stale>>
    /\ UNCHANGED <<capture_vars, tool_vars>>

\* time.sleep(POLL_INTERVAL)
wait_for_stability_sleep ==
    /\ At("wait_for_stability", "sleep")
    /\ \E d \in 0..MaxStepTime :
        now' = now + POLL_INTERVAL + d
    /\ stab' = [stab EXCEPT !.sleeps = @ + 1]
    /\ Goto("poll")
    /\ UNCHANGED <<wfs, home, rank, filt, entry, stale, trace>>
    /\ UNCHANGED <<capture_vars, tool_vars>>

\* curr = capture_window(); diff = cv2.absdiff(prev, curr).mean();
\* if diff < STABILITY_THRESHOLD: return curr;  prev = curr
wait_for_stability_poll ==
    /\ At("wait_for_stability", "poll")
    /\ \E d \in 0..MaxStepTime, c \in capture_window :
        /\ now' = now + d
        /\ IF ~c.found
           THEN /\ Raise("RuntimeError")
                /\ stab' = [stab EXCEPT !.outcome = "RuntimeError", !.msg = CaptureMessage]
                /\ trace' = Append(trace, WaitEvent("wait_for_stability", "stability",
                                                    stab.timeout, "RuntimeError"))
                /\ stale' = stale
           ELSE LET curr == Captured(c.frame, stab.captures + 1)
                    diff == AbsDiffMean(Reference(stab), curr)
                    s == [stab EXCEPT !.captures = @ + 1,
                                      !.unstable = IF diff < STABILITY_THRESHOLD
                                                   THEN @ ELSE @ + 1]
                IN  /\ stale' = FALSE
                    /\ IF IsStable(diff)
                       THEN /\ Return
                            /\ stab' = [s EXCEPT !.ret = curr, !.outcome = "ok"]
                            /\ trace' = Append(trace,
                                    [WaitEvent("wait_for_stability", "stability",
                                               stab.timeout, "ok") EXCEPT !.fresh = TRUE])
                       ELSE /\ Goto("check")
                            /\ stab' = [s EXCEPT !.prev = curr]
                            /\ trace' = trace
    /\ UNCHANGED <<wfs, home, rank, filt, entry>>
    /\ UNCHANGED <<capture_vars, tool_vars>>

----------------------------------------------------------------------------
(* navigate_home *)

NoHome == [attempt |-> 0, checks |-> 0]

InRangeInclusive(attempt) == attempt <= NAV_HOME_MAX_CLICKS

\* for attempt in range(NAV_HOME_MAX_CLICKS)
InRange(attempt) == attempt < NAV_HOME_MAX_CLICKS

navigate_home_loop_no_final ==
    /\ At("navigate_home", "start")
    /\ IF InRange(home.attempt)
       THEN /\ CallWfs("TEMPLATE_WORLD_SCREEN", NAV_HOME_CHECK_TIMEOUT,
                       DEFAULT_CONFIDENCE, "try_ret")
            /\ home' = [home EXCEPT !.checks = @ + 1]
       ELSE /\ Return
            /\ ForgetWaits
            /\ home' = home
    /\ UNCHANGED <<now, rank, filt, entry, stale, trace>>
    /\ UNCHANGED <<capture_vars, tool_vars>>

\* for attempt in range(NAV_HOME_MAX_CLICKS): try: wait_for_screen(template,
\* timeout=NAV_HOME_CHECK_TIMEOUT); after the loop: wait_for_screen(template)
navigate_home_loop ==
    /\ At("navigate_home", "start")
    /\ IF InRange(home.attempt)
       THEN CallWfs("TEMPLATE_WORLD_SCREEN", NAV_HOME_CHECK_TIMEOUT,
                    DEFAULT_CONFIDENCE, "try_ret")
       ELSE CallWfs("TEMPLATE_WORLD_SCREEN", WAIT_TIMEOUT, DEFAULT_CONFIDENCE, "final_ret")
    /\ home' = [home EXCEPT !.checks = @ + 1]
    /\ UNCHANGED <<now, rank, filt, entry, stale, trace>>
    /\ UNCHANGED <<capture_vars, tool_vars>>

navigate_home_found_no_return ==
    /\ At("navigate_home", "try_ret")
    /\ Goto("except")
    /\ ForgetWaits
    /\ UNCHANGED <<now, home, rank, filt, entry, stale, trace>>
    /\ UNCHANGED <<capture_vars, tool_vars>>

\* the bounded check returned: logger.info(...); return
navigate_home_found ==
    /\ At("navigate_home", "try_ret")
    /\ Return
    /\ ForgetWaits
    /\ UNCHANGED <<now, home, rank, filt, entry, stale, trace>>
    /\ UNCHANGED <<capture_vars, tool_vars>>

navigate_home_except_no_click ==
    /\ At("navigate_home", "except")
    /\ \E d \in 0..MaxStepTime : now' = now + d
    /\ Goto("start")
    /\ home' = [home EXCEPT !.attempt = @ + 1]
    /\ ForgetWaits
    /\ UNCHANGED <<trace, stale, rank, filt, entry>>
    /\ UNCHANGED <<capture_vars, tool_vars>>

\* except TimeoutError: game_click(*CLICK_BACK), then the next attempt
navigate_home_except ==
    /\ At("navigate_home", "except")
    /\ game_click("CLICK_BACK", "start")
    /\ home' = [home EXCEPT !.attempt = IF stack' # <<>> THEN @ + 1 ELSE @]
    /\ ForgetWaits
    /\ UNCHANGED <<rank, filt, entry>>
    /\ UNCHANGED <<capture_vars, tool_vars>>

\* the final check returned: logger.info(...); return
navigate_home_final ==
    /\ At("navigate_home", "final_ret")
    /\ Return
    /\ ForgetWaits
    /\ UNCHANGED <<now, home, rank, filt, entry, stale, trace>>
    /\ UNCHANGED <<capture_vars, tool_vars>>

----------------------------------------------------------------------------
(* navigate_to_guild_members *)

navigate_to_guild_members_click_guild_unconfirmed ==
    /\ At("navigate_to_guild_members", "start")
    /\ game_click("CLICK_GUILD", "click_menu")
    /\ ForgetWaits
    /\ UNCHANGED <<home, rank, filt, entry>>
    /\ UNCHANGED <<capture_vars, tool_vars>>

\* game_click(*CLICK_GUILD)
navigate_to_guild_members_click_guild ==
    /\ At("navigate_to_guild_members", "start")
    /\ game_click("CLICK_GUILD", "wait_hall")
    /\ ForgetWaits
    /\ UNCHANGED <<home, rank, filt, entry>>
    /\ UNCHANGED <<capture_vars, tool_vars>>

\* wait_for_screen(TEMPLATE_GUILD_HALL)
navigate_to_guild_members_wait_hall ==
    /\ At("navigate_to_guild_members", "wait_hall")
    /\ CallWfs("TEMPLATE_GUILD_HALL", WAIT_TIMEOUT, DEFAULT_CONFIDENCE, "click_menu")
    /\ UNCHANGED <<now, home, rank, filt, entry, stale, trace>>
    /\ UNCHANGED <<capture_vars, tool_vars>>

\* game_click(*CLICK_GUILD_MENU)
navigate_to_guild_members_click_menu ==
    /\ At("navigate_to_guild_members", "click_menu")
    /\ game_click("CLICK_GUILD_MENU", "wait_list")
    /\ ForgetWaits
    /\ UNCHANGED <<home, rank, filt, entry>>
    /\ UNCHANGED <<capture_vars, tool_vars>>

\* wait_for_screen(TEMPLATE_GUILD_MEMBER_LIST)
navigate_to_guild_members_wait_list ==
    /\ At("navigate_to_guild_members", "wait_list")
    /\ CallWfs("TEMPLATE_GUILD_MEMBER_LIST", WAIT_TIMEOUT, DEFAULT_CONFIDENCE, "done")
    /\ UNCHANGED <<now, home, rank, filt, entry, stale, trace>>
    /\ UNCHANGED <<capture_vars, tool_vars>>

navigate_to_guild_members_done ==
    /\ At("navigate_to_guild_members", "done")
    /\ Return
    /\ ForgetWaits
    /\ UNCHANGED <<now, home, rank, filt, entry, stale, trace>>
    /\ UNCHANGED <<capture_vars, tool_vars>>

----------------------------------------------------------------------------
(* navigate_to_<mode>_ranking and _navigate_to_ranking *)

\* navigate_to_<mode>_ranking(): _navigate_to_ranking(<the mode's coordinates>)
navigate_to_ranking_call ==
    /\ At("navigate_to_ranking", "start")
    /\ Call("_navigate_to_ranking", "done")
    /\ rank' = RankingArgs(entry.mode)
    /\ ForgetWaits
    /\ UNCHANGED <<now, home, filt, entry, stale, trace>>
    /\ UNCHANGED <<capture_vars, tool_vars>>

navigate_to_ranking_done ==
    /\ At("navigate_to_ranking", "done")
    /\ Return
    /\ ForgetWaits
    /\ UNCHANGED <<now, home, rank, filt, entry, stale, trace>>
    /\ UNCHANGED <<capture_vars, tool_vars>>

ranking_click_battle_modes_direct ==
    /\ At("_navigate_to_ranking", "start")
    /\ game_click(rank.click, "wait_mode")
    /\ ForgetWaits
    /\ UNCHANGED <<home, rank, filt, entry>>
    /\ UNCHANGED <<capture_vars, tool_vars>>

\* game_click(*CLICK_BATTLE_MODES)
ranking_click_battle_modes ==
    /\ At("_navigate_to_ranking", "start")
    /\ game_click("CLICK_BATTLE_MODES", "wait_menu")
    /\ ForgetWaits
    /\ UNCHANGED <<home, rank, filt, entry>>
    /\ UNCHANGED <<capture_vars, tool_vars>>

\* wait_for_screen(TEMPLATE_BATTLE_MODES)
ranking_wait_menu ==
    /\ At("_navigate_to_ranking", "wait_menu")
    /\ CallWfs("TEMPLATE_BATTLE_MODES", WAIT_TIMEOUT, DEFAULT_CONFIDENCE, "click_mode")
    /\ UNCHANGED <<now, home, rank, filt, entry, stale, trace>>
    /\ UNCHANGED <<capture_vars, tool_vars>>

\* game_click(*click_coords)
ranking_click_mode ==
    /\ At("_navigate_to_ranking", "click_mode")
    /\ game_click(rank.click, "wait_mode")
    /\ ForgetWaits
    /\ UNCHANGED <<home, rank, filt, entry>>
    /\ UNCHANGED <<capture_vars, tool_vars>>

ranking_wait_mode_skipped ==
    /\ At("_navigate_to_ranking", "wait_mode")
    /\ Goto("click_ranking")
    /\ ForgetWaits
    /\ UNCHANGED <<now, home, rank, filt, entry, stale, trace>>
    /\ UNCHANGED <<capture_vars, tool_vars>>

ranking_wait_mode_of_mode ==
    /\ At("_navigate_to_ranking", "wait_mode")
    /\ CallWfs(rank.click, WAIT_TIMEOUT, DEFAULT_CONFIDENCE, "click_ranking")
    /\ UNCHANGED <<now, home, rank, filt, entry, stale, trace>>
    /\ UNCHANGED <<capture_vars, tool_vars>>

\* wait_for_screen(TEMPLATE_MODE_SCREEN)
ranking_wait_mode ==
    /\ At("_navigate_to_ranking", "wait_mode")
    /\ CallWfs("TEMPLATE_MODE_SCREEN", WAIT_TIMEOUT, DEFAULT_CONFIDENCE, "click_ranking")
    /\ UNCHANGED <<now, home, rank, filt, entry, stale, trace>>
    /\ UNCHANGED <<capture_vars, tool_vars>>

\* game_click(*ranking_click_coords)
ranking_click_ranking ==
    /\ At("_navigate_to_ranking", "click_ranking")
    /\ game_click(rank.ranking, "wait_ranking")
    /\ ForgetWaits
    /\ UNCHANGED <<home, rank, filt, entry>>
    /\ UNCHANGED <<capture_vars, tool_vars>>

\* wait_for_screen(TEMPLATE_RANKING_SCREEN)
ranking_wait_ranking ==
    /\ At("_navigate_to_ranking", "wait_ranking")
    /\ CallWfs("TEMPLATE_RANKING_SCREEN", WAIT_TIMEOUT, DEFAULT_CONFIDENCE, "filter")
    /\ UNCHANGED <<now, home, rank, filt, entry, stale, trace>>
    /\ UNCHANGED <<capture_vars, tool_vars>>

\* apply_guild_filter(filter_1_coords, filter_2_coords)
ranking_apply_filter ==
    /\ At("_navigate_to_ranking", "filter")
    /\ Call("apply_guild_filter", "done")
    /\ filt' = [f1 |-> rank.f1, f2 |-> rank.f2]
    /\ ForgetWaits
    /\ UNCHANGED <<now, home, rank, entry, stale, trace>>
    /\ UNCHANGED <<capture_vars, tool_vars>>

ranking_done ==
    /\ At("_navigate_to_ranking", "done")
    /\ Return
    /\ ForgetWaits
    /\ UNCHANGED <<now, home, rank, filt, entry, stale, trace>>
    /\ UNCHANGED <<capture_vars, tool_vars>>

----------------------------------------------------------------------------
(* apply_guild_filter *)

NoFilt == [f1 |-> "none", f2 |-> "none"]

apply_guild_filter_click_1_single ==
    /\ At("apply_guild_filter", "start")
    /\ game_click(filt.f1, "wait_ranking")
    /\ ForgetWaits
    /\ UNCHANGED <<home, rank, filt, entry>>
    /\ UNCHANGED <<capture_vars, tool_vars>>

\* game_click(*filter_1_coords)
apply_guild_filter_click_1 ==
    /\ At("apply_guild_filter", "start")
    /\ game_click(filt.f1, "stability")
    /\ ForgetWaits
    /\ UNCHANGED <<home, rank, filt, entry>>
    /\ UNCHANGED <<capture_vars, tool_vars>>

apply_guild_filter_stability_skipped ==
    /\ At("apply_guild_filter", "stability")
    /\ Goto("click_2")
    /\ ForgetWaits
    /\ UNCHANGED <<now, home, rank, filt, entry, stale, trace>>
    /\ UNCHANGED <<capture_vars, tool_vars>>

\* wait_for_stability()
apply_guild_filter_stability ==
    /\ At("apply_guild_filter", "stability")
    /\ CallStab(FRAME_STABILITY_TIMEOUT, "click_2")
    /\ UNCHANGED <<now, home, rank, filt, entry, stale, trace>>
    /\ UNCHANGED <<capture_vars, tool_vars>>

apply_guild_filter_click_2_unconfirmed ==
    /\ At("apply_guild_filter", "click_2")
    /\ game_click(filt.f2, "done")
    /\ ForgetWaits
    /\ UNCHANGED <<home, rank, filt, entry>>
    /\ UNCHANGED <<capture_vars, tool_vars>>

\* game_click(*filter_2_coords)
apply_guild_filter_click_2 ==
    /\ At("apply_guild_filter", "click_2")
    /\ game_click(filt.f2, "wait_ranking")
    /\ ForgetWaits
    /\ UNCHANGED <<home, rank, filt, entry>>
    /\ UNCHANGED <<capture_vars, tool_vars>>

\* wait_for_screen(TEMPLATE_RANKING_SCREEN)
apply_guild_filter_wait ==
    /\ At("apply_guild_filter", "wait_ranking")
    /\ CallWfs("TEMPLATE_RANKING_SCREEN", WAIT_TIMEOUT, DEFAULT_CONFIDENCE, "done")
    /\ UNCHANGED <<now, home, rank, filt, entry, stale, trace>>
    /\ UNCHANGED <<capture_vars, tool_vars>>

apply_guild_filter_done ==
    /\ At("apply_guild_filter", "done")
    /\ Return
    /\ ForgetWaits
    /\ UNCHANGED <<now, home, rank, filt, entry, stale, trace>>
    /\ UNCHANGED <<capture_vars, tool_vars>>

----------------------------------------------------------------------------
(* The capture layer (src/capture.py) and game_click in full.  The window  *)
(* is part of the environment: every lookup finds it wherever it then is.  *)
(* The calls into mss, numpy, cv2 and pyautogui complete.                  *)

\* screen positions <<left, top>> of the client area
Origins == {<<0, 0>>, <<3, 7>>}

\* sizes <<width, height>> of a client area or of a capture
Sizes == {<<GAME_WIDTH, GAME_HEIGHT>>, <<OtherWidth, OtherHeight>>}

\* no visible window of the game (on Linux: no process of the game)
NoWindow == [present |-> FALSE, left |-> 0, top |-> 0, width |-> 0, height |-> 0]

\* the game window as a lookup can find it: the screen position of its client
\* area and the size of its client area
Windows ==
    {NoWindow} \cup
    {[present |-> TRUE, left |-> o[1], top |-> o[2], width |-> sz[1], height |-> sz[2]] :
        o \in Origins, sz \in Sizes}

NoGeometry == [left |-> 0, top |-> 0, width |-> 0, height |-> 0]

\* _find_window_rect_windows(): EnumWindows, GetClientRect, ClientToScreen
find_window_rect_windows(w) ==
    IF ~w.present
    THEN [error |-> "Game window not found", geometry |-> NoGeometry]
    ELSE IF w.width # GAME_WIDTH \/ w.height # GAME_HEIGHT
         THEN [error |-> "Game client area dimensions mismatch", geometry |-> NoGeometry]
         ELSE [error |-> "none",
               geometry |-> [left |-> w.left, top |-> w.top,
                             width |-> GAME_WIDTH, height |-> GAME_HEIGHT]]

\* find_game_window(): on Windows the lookup above, elsewhere a pgrep check
\* and a hardcoded geometry
find_game_window(sys, w) ==
    IF sys = "Windows"
    THEN find_window_rect_windows(w)
    ELSE IF ~w.present
         THEN [error |-> "Game window not found", geometry |-> NoGeometry]
         ELSE [error |-> "none",
               geometry |-> [left |-> 0, top |-> 0,
                             width |-> GAME_WIDTH, height |-> GAME_HEIGHT]]

NoScreenshot == [region |-> NoGeometry, shape |-> <<0, 0, 0>>]

\* what sct.grab(region) can return: the pixels of region as a BGRA array,
\* of whatever size the display gives them
Grab(region) ==
    {[region |-> region, shape |-> <<sz[2], sz[1], 4>>] : sz \in Sizes}

\* np.array(screenshot)[:, :, :3]
DropAlpha(screenshot) ==
    [screenshot EXCEPT !.shape = <<screenshot.shape[1], screenshot.shape[2], 3>>]

HasExpectedShapeChannelsOnly(frame) == frame.shape[3] = 3

\* not (frame.shape != (GAME_HEIGHT, GAME_WIDTH, 3))
HasExpectedShape(frame) == frame.shape = <<GAME_HEIGHT, GAME_WIDTH, 3>>

\* sct.monitors[1], the primary monitor
PrimaryMonitor ==
    [left |-> 0, top |-> 0, width |-> GAME_WIDTH, height |-> GAME_HEIGHT]

NoDev == [open |-> 0, acquired |-> 0, released |-> 0]

\* the window found, the geometry find_game_window() returned, the
\* screenshot grabbed, the frame returned and how the activation ended
NoCap ==
    [window |-> NoWindow, geometry |-> NoGeometry, screenshot |-> NoScreenshot,
     ret |-> NoScreenshot, outcome |-> "none", error |-> "none"]

NoPath == [stamp |-> 0, context |-> "none"]

\* DEBUG_DIR / f"{timestamp}_{context}.png"
FilePath(stamp, context) == [stamp |-> stamp, context |-> context]

NoShot ==
    [context |-> "none", filepath |-> NoPath, screenshot |-> NoScreenshot,
     frame |-> NoScreenshot, source |-> "none", caught |-> FALSE, written |-> 0,
     ret |-> NoPath, outcome |-> "none"]

\* x, y, the geometry looked up, the position clicked and, for the record,
\* the window found, the numbers of lookups and of clicks and the number of
\* clicks the pointer had been given before the call
NoClk ==
    [x |-> 0, y |-> 0, window |-> NoWindow, geometry |-> NoGeometry,
     abs_x |-> 0, abs_y |-> 0, lookups |-> 0, clicks |-> 0, before |-> 0,
     outcome |-> "none"]

NoDisk == [dir |-> FALSE, files |-> {}]

\* the logical coordinates a caller clicks at
Points == {<<0, 0>>, <<10, 20>>}

\* the contexts a caller tags a debug screenshot with
Contexts == {"ocr_failure_activity"}

(* capture_window *)

\* geometry = find_game_window()
capture_window_find ==
    /\ At("capture_window", "start")
    /\ \E w \in Windows :
        LET g == find_game_window(system, w)
        IN  IF g.error = "none"
            THEN /\ Goto("enter")
                 /\ cap' = [cap EXCEPT !.window = w, !.geometry = g.geometry]
            ELSE /\ Raise("RuntimeError")
                 /\ cap' = [cap EXCEPT !.window = w, !.outcome = "RuntimeError",
                                       !.error = g.error]
    /\ UNCHANGED <<now, entry, nav_vars, tool_vars, system, dev, shot, clk, pointer, disk, calls>>

\* with mss.mss() as sct: the handle is acquired
capture_window_enter ==
    /\ At("capture_window", "enter")
    /\ dev' = [dev EXCEPT !.open = @ + 1, !.acquired = @ + 1]
    /\ Goto("grab")
    /\ UNCHANGED <<now, entry, nav_vars, tool_vars, system, cap, shot, clk, pointer, disk, calls>>

\* screenshot = sct.grab(geometry)
capture_window_grab ==
    /\ At("capture_window", "grab")
    /\ \E s \in Grab(cap.geometry) :
        cap' = [cap EXCEPT !.screenshot = s]
    /\ Goto("exit")
    /\ UNCHANGED <<now, entry, nav_vars, tool_vars, system, dev, shot, clk, pointer, disk, calls>>

capture_window_exit_leaking ==
    /\ At("capture_window", "exit")
    /\ dev' = dev
    /\ Goto("check")
    /\ UNCHANGED <<now, entry, nav_vars, tool_vars, system, cap, shot, clk, pointer, disk, calls>>

\* the end of the with block: the handle is released
capture_window_exit ==
    /\ At("capture_window", "exit")
    /\ dev' = [dev EXCEPT !.open = @ - 1, !.released = @ + 1]
    /\ Goto("check")
    /\ UNCHANGED <<now, entry, nav_vars, tool_vars, system, cap, shot, clk, pointer, disk, calls>>

\* frame = np.array(screenshot)[:, :, :3]; if frame.shape != (GAME_HEIGHT,
\* GAME_WIDTH, 3): raise RuntimeError; return frame
capture_window_check ==
    /\ At("capture_window", "check")
    /\ LET frame == DropAlpha(cap.screenshot)
       IN  IF HasExpectedShape(frame)
           THEN /\ Return
                /\ cap' = [cap EXCEPT !.ret = frame, !.outcome = "ok"]
           ELSE /\ Raise("RuntimeError")
                /\ cap' = [cap EXCEPT !.outcome = "RuntimeError",
                                      !.error = "Unexpected capture dimensions"]
    /\ UNCHANGED <<now, entry, nav_vars, tool_vars, system, dev, shot, clk, pointer, disk, calls>>

(* save_debug_screenshot *)

\* DEBUG_DIR.mkdir(parents=True, exist_ok=True); filepath = DEBUG_DIR /
\* f"{timestamp}_{context}.png"
save_debug_screenshot_mkdir ==
    /\ At("save_debug_screenshot", "start")
    /\ disk' = [disk EXCEPT !.dir = TRUE]
    /\ shot' = [shot EXCEPT !.filepath = FilePath(now, shot.context)]
    /\ Goto("try")
    /\ UNCHANGED <<now, entry, nav_vars, tool_vars, system, dev, cap, clk, pointer, calls>>

\* try: frame = capture_window()
save_debug_screenshot_try ==
    /\ At("save_debug_screenshot", "try")
    /\ Call("capture_window", "try_ret")
    /\ cap' = [NoCap EXCEPT !.outcome = "running"]
    /\ UNCHANGED <<now, entry, nav_vars, tool_vars, system, dev, shot, clk, pointer, disk, calls>>

\* capture_window() returned the frame
save_debug_screenshot_captured ==
    /\ At("save_debug_screenshot", "try_ret")
    /\ shot' = [shot EXCEPT !.frame = cap.ret, !.source = "window"]
    /\ Goto("imwrite")
    /\ UNCHANGED <<now, entry, nav_vars, tool_vars, system, dev, cap, clk, pointer, disk, calls>>

\* except RuntimeError: with mss.mss() as sct: the handle is acquired
save_debug_screenshot_except ==
    /\ At("save_debug_screenshot", "except")
    /\ dev' = [dev EXCEPT !.open = @ + 1, !.acquired = @ + 1]
    /\ shot' = [shot EXCEPT !.caught = TRUE]
    /\ Goto("fallback_grab")
    /\ UNCHANGED <<now, entry, nav_vars, tool_vars, system, cap, clk, pointer, disk, calls>>

\* screenshot = sct.grab(sct.monitors[1])
save_debug_screenshot_fallback_grab ==
    /\ At("save_debug_screenshot", "fallback_grab")
    /\ \E s \in Grab(PrimaryMonitor) :
        shot' = [shot EXCEPT !.screenshot = s]
    /\ Goto("fallback_exit")
    /\ UNCHANGED <<now, entry, nav_vars, tool_vars, system, dev, cap, clk, pointer, disk, calls>>

\* the end of the with block: the handle is released;
\* frame = np.array(screenshot)[:, :, :3]
save_debug_screenshot_fallback_exit ==
    /\ At("save_debug_screenshot", "fallback_exit")
    /\ dev' = [dev EXCEPT !.open = @ - 1, !.released = @ + 1]
    /\ shot' = [shot EXCEPT !.frame = DropAlpha(shot.screenshot), !.source = "monitor"]
    /\ Goto("imwrite")
    /\ UNCHANGED <<now, entry, nav_vars, tool_vars, system, cap, clk, pointer, disk, calls>>

\* cv2.imwrite(str(filepath), frame); return filepath
save_debug_screenshot_imwrite ==
    /\ At("save_debug_screenshot", "imwrite")
    /\ disk' = [disk EXCEPT !.files = {f \in @ : f.path # shot.filepath}
                                      \cup {[path |-> shot.filepath,
                                              source |-> shot.source]}]
    /\ shot' = [shot EXCEPT !.written = @ + 1, !.ret = shot.filepath, !.outcome = "ok"]
    /\ Return
    /\ UNCHANGED <<now, entry, nav_vars, tool_vars, system, dev, cap, clk, pointer, calls>>

(* game_click(x, y) *)

OffsetNone(coordinate, origin) == coordinate

\* abs_x = x + geometry["left"]; abs_y = y + geometry["top"]
Offset(coordinate, origin) == coordinate + origin

\* geometry = find_game_window(); abs_x = ...; abs_y = ...
game_click_find ==
    /\ At("game_click", "start")
    /\ \E w \in Windows :
        LET g == find_game_window(system, w)
        IN  IF g.error = "none"
            THEN /\ Goto("click")
                 /\ clk' = [clk EXCEPT !.window = w, !.geometry = g.geometry,
                                       !.lookups = @ + 1,
                                       !.abs_x = Offset(clk.x, g.geometry.left),
                                       !.abs_y = Offset(clk.y, g.geometry.top)]
            ELSE /\ Raise("RuntimeError")
                 /\ clk' = [clk EXCEPT !.window = w, !.lookups = @ + 1,
                                       !.outcome = "RuntimeError"]
    /\ UNCHANGED <<now, entry, nav_vars, tool_vars, system, dev, cap, shot, pointer, disk, calls>>

\* pyautogui.click(abs_x, abs_y)
game_click_click ==
    /\ At("game_click", "click")
    /\ pointer' = Append(pointer, [x |-> clk.abs_x, y |-> clk.abs_y])
    /\ clk' = [clk EXCEPT !.clicks = @ + 1, !.outcome = "ok"]
    /\ Return
    /\ UNCHANGED <<now, entry, nav_vars, tool_vars, system, dev, cap, shot, disk, calls>>

(* The top-level calls of the capture layer *)

\* the state in which a top-level call of fn begins
BeginCapture(fn) ==
    /\ stack = <<>>
    /\ calls < MaxCalls
    /\ calls' = calls + 1
    /\ stack' = <<[fn |-> fn, pc |-> "start"]>>
    /\ result' = "running"
    /\ entry' = [fn |-> fn, mode |-> "none"]
    /\ UNCHANGED <<now, nav_vars, tool_vars, system, dev, pointer, disk>>

\* capture_window()
EnterCaptureWindow ==
    /\ BeginCapture("capture_window")
    /\ cap' = [NoCap EXCEPT !.outcome = "running"]
    /\ shot' = NoShot
    /\ clk' = NoClk

\* save_debug_screenshot(context)
EnterSaveDebugScreenshot ==
    /\ BeginCapture("save_debug_screenshot")
    /\ \E c \in Contexts :
        shot' = [NoShot EXCEPT !.context = c, !.outcome = "running"]
    /\ cap' = NoCap
    /\ clk' = NoClk

\* game_click(x, y)
EnterGameClick ==
    /\ BeginCapture("game_click")
    /\ \E pt \in Points :
        clk' = [NoClk EXCEPT !.x = pt[1], !.y = pt[2], !.before = Len(pointer),
                             !.outcome = "running"]
    /\ cap' = NoCap
    /\ shot' = NoShot

\* time.sleep(POLL_INTERVAL) of a poll loop, between two calls
caller_sleep ==
    /\ stack = <<>>
    /\ calls < MaxCalls
    /\ calls' = calls + 1
    /\ now' = now + POLL_INTERVAL
    /\ UNCHANGED <<stack, result, entry, nav_vars, tool_vars, system, dev, cap, shot, clk,
                   pointer, disk>>

----------------------------------------------------------------------------
(* The top-level calls *)

\* the timeouts a caller passes to the two waits: none at all, a short one,
\* the defaults
Timeouts == {0, NAV_HOME_CHECK_TIMEOUT, WAIT_TIMEOUT, FRAME_STABILITY_TIMEOUT}

NoEntry == [fn |-> "none", mode |-> "none"]

\* the state in which a top-level call of fn begins
Begin(fn, mode) ==
    /\ now' = 0
    /\ stack' = <<[fn |-> fn, pc |-> "start"]>>
    /\ result' = "running"
    /\ entry' = [fn |-> fn, mode |-> mode]
    /\ home' = NoHome
    /\ rank' = NoArgs
    /\ stale' = FALSE
    /\ trace' = <<>>

\* wait_for_screen(template, timeout, confidence) called on its own
EnterWaitForScreen ==
    /\ stack = <<>>
    /\ \E t \in Templates, to \in Timeouts, c \in Confidences :
        wfs' = WfsArgs(t, to, c)
    /\ Begin("wait_for_screen", "none")
    /\ stab' = NoStab
    /\ filt' = NoFilt
    /\ UNCHANGED <<capture_vars, tool_vars>>

\* wait_for_stability(timeout) called on its own
EnterWaitForStability ==
    /\ stack = <<>>
    /\ \E to \in Timeouts :
        stab' = [NoStab EXCEPT !.timeout = to, !.outcome = "running"]
    /\ Begin("wait_for_stability", "none")
    /\ wfs' = NoWfs
    /\ filt' = NoFilt
    /\ UNCHANGED <<capture_vars, tool_vars>>

\* navigate_home() or navigate_to_guild_members()
EnterNavigate ==
    /\ stack = <<>>
    /\ \E fn \in {"navigate_home", "navigate_to_guild_members"} :
        Begin(fn, "none")
    /\ wfs' = NoWfs
    /\ stab' = NoStab
    /\ filt' = NoFilt
    /\ UNCHANGED <<capture_vars, tool_vars>>

\* one of the five navigate_to_<mode>_ranking()
EnterRanking ==
    /\ stack = <<>>
    /\ \E m \in Modes :
        Begin("navigate_to_ranking", m)
    /\ wfs' = NoWfs
    /\ stab' = NoStab
    /\ filt' = NoFilt
    /\ UNCHANGED <<capture_vars, tool_vars>>

\* apply_guild_filter(filter_1_coords, filter_2_coords) called on its own
EnterFilter ==
    /\ stack = <<>>
    /\ \E m \in Modes :
        /\ Begin("apply_guild_filter", m)
        /\ filt' = [f1 |-> RankingArgs(m).f1, f2 |-> RankingArgs(m).f2]
    /\ wfs' = NoWfs
    /\ stab' = NoStab
    /\ UNCHANGED <<capture_vars, tool_vars>>

----------------------------------------------------------------------------
(***************************************************************************)
(* Card detection (src/calibrate.py, detect_card_positions).  A frame is   *)
(* given by the locations (row, column) at which the card template scores  *)
(* at least TEMPLATE_CONFIDENCE; the card template file may or may not     *)
(* load, and its height is its number of rows.                             *)
(***************************************************************************)

\* rows and columns at which a match may be found
Ys == {10, 12, 15, 41, 200, 205}

Columns == {0, 1}

\* card_template.shape[0] of the templates considered
TemplateHeights == {5, 30}

Min(S) == CHOOSE m \in S : \A e \in S : m <= e

\* sorted(...) of a set of integers
RECURSIVE Sorted(_)
Sorted(S) == IF S = {} THEN <<>> ELSE <<Min(S)>> \o Sorted(S \ {Min(S)})

\* np.where(result >= TEMPLATE_CONFIDENCE)[0].tolist(): the row of every
\* matching location in row-major order, one entry per location
RECURSIVE Rows(_)
Rows(locations) ==
    IF locations = {} THEN <<>>
    ELSE LET first == CHOOSE l \in locations :
                          \A m \in locations :
                              \/ l[1] < m[1]
                              \/ l[1] = m[1] /\ l[2] <= m[2]
         IN  <<first[1]>> \o Rows(locations \ {first})

\* set(...) of a list
SetOf(list) == {list[k] : k \in 1..Len(list)}

RECURSIVE Sum(_)
Sum(list) == IF list = <<>> THEN 0 ELSE Head(list) + Sum(Tail(list))

\* clusters[-1][0]: the member of a cluster a new coordinate is compared with
AnchorLast(cluster) == cluster[Len(cluster)]
Anchor(cluster) == cluster[1]

\* y - clusters[-1][0] < template_h
JoinsClusterInclusive(y, anchor, template_h) == y - anchor <= template_h
JoinsCluster(y, anchor, template_h) == y - anchor < template_h

RepresentativeTotal(c) == Sum(c)

\* int(np.mean(c)) of a cluster of non-negative coordinates
Representative(c) == Sum(c) \div Len(c)

NoDet == [pc |-> "idle", loaded |-> FALSE, locations |-> {}, template_h |-> 0,
          y_values |-> <<>>, clusters |-> <<>>, i |-> 0, ret |-> <<>>,
          outcome |-> "none"]

\* card_template = cv2.imread(card_path); return [] if it is None
detect_card_positions_imread ==
    /\ det.pc = "imread"
    /\ det' = IF det.loaded
              THEN [det EXCEPT !.pc = "match"]
              ELSE [det EXCEPT !.pc = "done", !.ret = <<>>, !.outcome = "returned"]
    /\ UNCHANGED <<base_vars, run, col, prs>>

\* matchTemplate, np.where, sorted(set(...)); return [] if nothing matched,
\* else clusters = [[y_values[0]]]
detect_card_positions_match ==
    /\ det.pc = "match"
    /\ LET y_values == Sorted(SetOf(Rows(det.locations)))
       IN  det' = IF y_values = <<>>
                  THEN [det EXCEPT !.pc = "done", !.y_values = y_values,
                                   !.ret = <<>>, !.outcome = "returned"]
                  ELSE [det EXCEPT !.pc = "cluster", !.y_values = y_values,
                                   !.clusters = << <<y_values[1]>> >>, !.i = 2]
    /\ UNCHANGED <<base_vars, run, col, prs>>

\* one iteration of: for y in y_values[1:]
detect_card_positions_cluster ==
    /\ det.pc = "cluster"
    /\ det.i <= Len(det.y_values)
    /\ LET y == det.y_values[det.i]
           n == Len(det.clusters)
       IN  det' = IF JoinsCluster(y, Anchor(det.clusters[n]), det.template_h)
                  THEN [det EXCEPT !.clusters[n] = Append(@, y), !.i = @ + 1]
                  ELSE [det EXCEPT !.clusters = Append(@, <<y>>), !.i = @ + 1]
    /\ UNCHANGED <<base_vars, run, col, prs>>

\* positions = [int(np.mean(c)) for c in clusters]; return positions
detect_card_positions_return ==
    /\ det.pc = "cluster"
    /\ det.i > Len(det.y_values)
    /\ det' = [det EXCEPT !.pc = "done",
                          !.ret = [k \in 1..Len(det.clusters) |->
                                       Representative(det.clusters[k])],
                          !.outcome = "returned"]
    /\ UNCHANGED <<base_vars, run, col, prs>>

(***************************************************************************)
(* The scroll subcommand of the calibration tool (src/calibrate.py,        *)
(* cmd_scroll and calibrate_mode).  The routines it calls are taken by     *)
(* their outcome: each returns or raises one of the exceptions it can      *)
(* raise.  wait_for_screen and the navigators raise TimeoutError,          *)
(* FileNotFoundError or RuntimeError; wait_for_stability raises            *)
(* TimeoutError or RuntimeError; game_move_to raises RuntimeError when the *)
(* game window is not found.                                               *)
(***************************************************************************)

\* the largest --scroll-steps considered
MaxScrollSteps == 2

\* the longest list of modes considered
MaxModes == 2

\* keys of MODE_NAVIGATORS given on the command line
ScrollModes == {"activity", "afk_stages"}

ModeLists == UNION {[1..n -> ScrollModes] : n \in 1..MaxModes}

NavigationErrors == {"TimeoutError", "FileNotFoundError", "RuntimeError"}

StabilityErrors == {"TimeoutError", "RuntimeError"}

\* f"calibrate_fail_{mode}"
FailContext(mode) == <<"calibrate_fail", mode>>

\* modes: args.modes; scroll_steps: args.scroll_steps; m: the index of the
\* mode of the current iteration; step: the scroll step of calibrate_mode;
\* frame: the frame held by calibrate_mode, the n-th frame returned by
\* wait_for_stability in the run, or 0; exc: the exception in flight;
\* events: what the run did, in order, each with the index of the mode it
\* was done for, the frame it was done on and the exception it ended with;
\* raised: the exceptions raised inside calibrate_mode, each with the index
\* of its mode; screenshots: the contexts save_debug_screenshot was called
\* with; exit: the status given to sys.exit, or "none"
NoRun == [pc |-> "idle", modes |-> <<>>, scroll_steps |-> 0, m |-> 0, step |-> 0,
          frame |-> 0, exc |-> "none", events |-> <<>>, raised |-> <<>>,
          screenshots |-> <<>>, exit |-> "none"]

\* the kinds of events: "world", the World screen was confirmed; "navigate",
\* the mode's navigator was called; "stable" and "unstable", a
\* wait_for_stability returned a frame or raised; "detect", card detection
\* and the saving of the annotated frame; "scroll", one scroll of
\* SCROLL_STEP; "home", navigate_home was called
RunEvent(kind) == [kind |-> kind, m |-> run.m, frame |-> run.frame, exc |-> "none"]

FailedEvent(kind, e) == [RunEvent(kind) EXCEPT !.exc = e]

\* an exception leaves calibrate_mode: control is in the except clause of
\* cmd_scroll's loop
RaiseInMode(r, e) ==
    [r EXCEPT !.pc = "except", !.exc = e, !.raised = Append(@, [m |-> r.m, exc |-> e])]

cmd_scroll_world_unchecked ==
    /\ run.pc = "world"
    /\ \/ run' = [run EXCEPT !.pc = "loop", !.events = Append(@, RunEvent("world"))]
       \/ \E e \in {"TimeoutError", "FileNotFoundError"} :
              run' = [run EXCEPT !.pc = "loop", !.exc = e]
       \/ run' = [run EXCEPT !.pc = "crashed", !.exc = "RuntimeError"]
    /\ UNCHANGED <<base_vars, det, col, prs>>

\* try: wait_for_screen(world_template, timeout=5.0)
\* except (TimeoutError, FileNotFoundError): sys.exit(1)
cmd_scroll_world ==
    /\ run.pc = "world"
    /\ \/ run' = [run EXCEPT !.pc = "loop", !.events = Append(@, RunEvent("world"))]
       \/ \E e \in {"TimeoutError", "FileNotFoundError"} :
              run' = [run EXCEPT !.pc = "exited", !.exc = e, !.exit = 1]
       \/ run' = [run EXCEPT !.pc = "crashed", !.exc = "RuntimeError"]
    /\ UNCHANGED <<base_vars, det, col, prs>>

\* for mode in args.modes: ...; after the loop, "All calibration complete."
cmd_scroll_loop ==
    /\ run.pc = "loop"
    /\ run' = IF run.m < Len(run.modes)
              THEN [run EXCEPT !.pc = "navigate", !.m = @ + 1]
              ELSE [run EXCEPT !.pc = "complete"]
    /\ UNCHANGED <<base_vars, det, col, prs>>

\* calibrate_mode: navigator = MODE_NAVIGATORS[mode]; navigator()
calibrate_mode_navigate ==
    /\ run.pc = "navigate"
    /\ \/ run' = [run EXCEPT !.pc = "step", !.step = 0,
                             !.events = Append(@, RunEvent("navigate"))]
       \/ \E e \in NavigationErrors :
              run' = RaiseInMode([run EXCEPT !.events =
                                     Append(@, FailedEvent("navigate", e))], e)
    /\ UNCHANGED <<base_vars, det, col, prs>>

CaughtInLoopNever(e) == FALSE

\* which exceptions of wait_for_stability the loop of calibrate_mode catches
CaughtInLoop(e) == e = "TimeoutError"

\* for step in range(max_steps): try: frame = wait_for_stability()
\* except TimeoutError: break
calibrate_mode_stability ==
    /\ run.pc = "step"
    /\ run.step < run.scroll_steps
    /\ \/ run' = [run EXCEPT !.pc = "detect", !.frame = @ + 1,
                             !.events = Append(@, [RunEvent("stable") EXCEPT
                                                      !.frame = run.frame + 1])]
       \/ \E e \in StabilityErrors :
              LET r == [run EXCEPT !.events = Append(@, FailedEvent("unstable", e))]
              IN  run' = IF CaughtInLoop(e)
                         THEN [r EXCEPT !.pc = "home",
                                        !.raised = Append(@, [m |-> run.m, exc |-> e])]
                         ELSE RaiseInMode(r, e)
    /\ UNCHANGED <<base_vars, det, col, prs>>

\* range(max_steps) is exhausted
calibrate_mode_steps_done ==
    /\ run.pc = "step"
    /\ run.step >= run.scroll_steps
    /\ run' = [run EXCEPT !.pc = "home"]
    /\ UNCHANGED <<base_vars, det, col, prs>>

calibrate_mode_detect_recaptured ==
    /\ run.pc = "detect"
    /\ run' = [run EXCEPT !.pc = "scroll", !.frame = @ + 1,
                          !.events = Append(@, [RunEvent("detect") EXCEPT
                                                   !.frame = run.frame + 1])]
    /\ UNCHANGED <<base_vars, det, col, prs>>

\* y_positions = detect_card_positions(frame) (a list, possibly empty),
\* draw_card_rectangles(frame, y_positions), save_calibration_frame
calibrate_mode_detect ==
    /\ run.pc = "detect"
    /\ run' = [run EXCEPT !.pc = "scroll", !.events = Append(@, RunEvent("detect"))]
    /\ UNCHANGED <<base_vars, det, col, prs>>

\* game_move_to(*SCROLL_REGION_CENTER); pyautogui.scroll(-SCROLL_STEP)
calibrate_mode_scroll ==
    /\ run.pc = "scroll"
    /\ \/ run' = [run EXCEPT !.pc = "step", !.step = @ + 1,
                             !.events = Append(@, RunEvent("scroll"))]
       \/ run' = RaiseInMode([run EXCEPT !.events =
                                  Append(@, FailedEvent("scroll", "RuntimeError"))],
                              "RuntimeError")
    /\ UNCHANGED <<base_vars, det, col, prs>>

\* navigate_home(), which returns once the World screen is confirmed; return
calibrate_mode_home ==
    /\ run.pc = "home"
    /\ \/ run' = [run EXCEPT !.pc = "loop",
                             !.events = @ \o <<RunEvent("home"), RunEvent("world")>>]
       \/ \E e \in NavigationErrors :
              run' = RaiseInMode([run EXCEPT !.events =
                                     Append(@, FailedEvent("home", e))], e)
    /\ UNCHANGED <<base_vars, det, col, prs>>

\* except Exception: logger.exception(...);
\* save_debug_screenshot(f"calibrate_fail_{mode}"); sys.exit(1)
cmd_scroll_except ==
    /\ run.pc = "except"
    /\ run' = [run EXCEPT !.pc = "exited",
                          !.screenshots = Append(@, FailContext(run.modes[run.m])),
                          !.exit = 1]
    /\ UNCHANGED <<base_vars, det, col, prs>>

(***************************************************************************)
(* The collection loop, scroll_and_collect(mode, roster).  Its body is not *)
(* in src/navigate.py, which only declares it; the loop is the one of the  *)
(* specification, section 4.9: wait_for_stability, detect_cards, for each  *)
(* card extract, parse and match the name, merge first-occurrence-wins,    *)
(* one scroll, repeat; it ends when the result holds the whole roster,     *)
(* when a step adds no new name, or at the cap on scroll steps.  A card is *)
(* given by what is read from it.                                          *)
(***************************************************************************)

\* the largest cap on scroll steps considered
MaxCollectSteps == 3

\* the largest number of cards detected on one frame
MaxCards == 2

\* the names cards can show; a roster is a non-empty set of them
Names == {"ann", "bob", "cy"}

Rosters == SUBSET Names \ {{}}

\* the values a field can parse to
Values == {1, 2}

\* what is read from a card: the name shown, whether the recognition is
\* confident, whether the field parses, and the value it parses to
Cards == [name : Names, confident : BOOLEAN, parses : BOOLEAN, value : Values]

NoMatch == "no_match"

\* match_player_name(name, roster): the roster name matched, or no match
match_player_name(name, roster) == IF name \in roster THEN name ELSE NoMatch

\* what handling one card comes to: a failure of extract_text or of the
\* parser, no roster name matched, or a name with its value
CardOutcome(card, roster) ==
    IF ~card.confident THEN [kind |-> "OCRConfidenceError"]
    ELSE IF ~card.parses THEN [kind |-> "ParseError"]
    ELSE IF match_player_name(card.name, roster) = NoMatch THEN [kind |-> "no_match"]
    ELSE [kind |-> "match", name |-> match_player_name(card.name, roster),
          value |-> card.value]

EmptyResult == [n \in {} |-> 0]

\* merging a sighting into the running result
MergeLastWins(res, name, value) ==
    [n \in DOMAIN res \cup {name} |-> IF n = name THEN value ELSE res[n]]
Merge(res, name, value) ==
    [n \in DOMAIN res \cup {name} |-> IF n \in DOMAIN res THEN res[n] ELSE value]

\* what a card that fails or matches no roster name does to the loop
AbortOnCard(c, kind) ==
    [c EXCEPT !.pc = "done", !.outcome = kind, !.last = kind]
SkipCard(c, kind) ==
    [c EXCEPT !.skipped = @ + 1, !.cards = @ - 1, !.last = kind]

\* roster, max_steps: the arguments and the configured cap; step: scroll
\* steps issued; cards: cards of the current frame still to handle; new:
\* names added in the current step; quiet: the latest steps in a row that
\* added no name; result: the running result; skipped: the count of cards
\* skipped; first: the value and the step of the first sighting of every
\* matched name; stale: whether a name already present was sighted again in
\* a later step with another value; last: what the last card handled came
\* to; outcome: "none", "returned" or the exception raised; why: what ended
\* the loop
NoCol == [pc |-> "idle", roster |-> {}, max_steps |-> 0, step |-> 0, cards |-> 0,
          new |-> 0, quiet |-> 0, result |-> EmptyResult, skipped |-> 0,
          first |-> EmptyResult, stale |-> FALSE, last |-> "none",
          outcome |-> "none", why |-> "none"]

\* wait_for_stability(): a stable frame, or TimeoutError, which ends the
\* collection
scroll_and_collect_stability ==
    /\ col.pc = "wait"
    /\ \/ col' = [col EXCEPT !.pc = "detect"]
       \/ col' = [col EXCEPT !.pc = "done", !.outcome = "TimeoutError"]
    /\ UNCHANGED <<base_vars, det, run, prs>>

\* detect_cards(frame): the cards of the frame, or DetectionError if none
scroll_and_collect_detect ==
    /\ col.pc = "detect"
    /\ \/ \E n \in 1..MaxCards :
              col' = [col EXCEPT !.pc = "card", !.cards = n, !.new = 0]
       \/ col' = [col EXCEPT !.pc = "done", !.outcome = "DetectionError"]
    /\ UNCHANGED <<base_vars, det, run, prs>>

\* one card: extract, parse, match, merge
scroll_and_collect_card ==
    /\ col.pc = "card"
    /\ col.cards > 0
    /\ \E card \in Cards :
           LET o == CardOutcome(card, col.roster)
           IN  col' = IF o.kind # "match" THEN SkipCard(col, o.kind)
                      ELSE IF o.name \in DOMAIN col.result
                      THEN [col EXCEPT !.cards = @ - 1, !.last = "duplicate",
                                       !.result = Merge(@, o.name, o.value),
                                       !.stale = @ \/ (/\ o.value # col.first[o.name].value
                                                       /\ col.step > col.first[o.name].step)]
                      ELSE [col EXCEPT !.cards = @ - 1, !.last = "merged",
                                       !.new = @ + 1,
                                       !.result = Merge(@, o.name, o.value),
                                       !.first = Merge(@, o.name, [value |-> o.value,
                                                                   step |-> col.step])]
    /\ UNCHANGED <<base_vars, det, run, prs>>

\* the cards of the frame are handled and one scroll is issued: return, or
\* repeat
scroll_and_collect_step_patient ==
    /\ col.pc = "card"
    /\ col.cards = 0
    /\ LET quiet == IF col.new = 0 THEN col.quiet + 1 ELSE 0
           c == [col EXCEPT !.step = @ + 1, !.quiet = quiet]
       IN  col' =
               IF Cardinality(DOMAIN c.result) >= Cardinality(c.roster)
               THEN [c EXCEPT !.pc = "done", !.outcome = "returned", !.why = "full"]
               ELSE IF c.quiet >= 2
               THEN [c EXCEPT !.pc = "done", !.outcome = "returned",
                              !.why = "end_of_list"]
               ELSE IF c.step >= c.max_steps
               THEN [c EXCEPT !.pc = "done", !.outcome = "returned", !.why = "cap"]
               ELSE [c EXCEPT !.pc = "wait"]
    /\ UNCHANGED <<base_vars, det, run, prs>>

scroll_and_collect_step ==
    /\ col.pc = "card"
    /\ col.cards = 0
    /\ LET quiet == IF col.new = 0 THEN col.quiet + 1 ELSE 0
           c == [col EXCEPT !.step = @ + 1, !.quiet = quiet]
       IN  col' =
               IF Cardinality(DOMAIN c.result) >= Cardinality(c.roster)
               THEN [c EXCEPT !.pc = "done", !.outcome = "returned", !.why = "full"]
               ELSE IF c.new = 0
               THEN [c EXCEPT !.pc = "done", !.outcome = "returned",
                              !.why = "end_of_list"]
               ELSE IF c.step >= c.max_steps
               THEN [c EXCEPT !.pc = "done", !.outcome = "returned", !.why = "cap"]
               ELSE [c EXCEPT !.pc = "wait"]
    /\ UNCHANGED <<base_vars, det, run, prs>>

(***************************************************************************)
(* The numeric field parsers parse_activity and parse_rank.  src/parse.py  *)
(* only declares them; what they compute is taken from the specification,  *)
(* section 4.7: a digit-correction pass over the raw text, the cast to an  *)
(* integer, and the check of the value's range.  A text is a sequence of   *)
(* characters.                                                             *)
(***************************************************************************)

\* config.py: ACTIVITY_MIN = 0, ACTIVITY_MAX = 1080
ACTIVITY_MIN == 0

ACTIVITY_MAX == 1080

\* the longest raw text considered
MaxTextLen == 4

Digits == {"0", "1", "2", "5", "8"}

\* the characters recognition can produce: digits, the letters confused
\* with digits, a sign and another letter
Characters == Digits \cup {"O", "l", "I", "-", "x"}

Texts == UNION {[1..n -> Characters] : n \in 0..MaxTextLen}

\* digit correction of one character: O -> 0, l and I -> 1
CorrectChar(c) ==
    CASE c = "O" -> "0"
      [] c \in {"l", "I"} -> "1"
      [] OTHER -> c

\* the digit-correction pass over a text
Correct(text) == [k \in 1..Len(text) |-> CorrectChar(text[k])]

\* whether int(text) succeeds: an optional sign, then at least one digit
Numeric(text) ==
    LET digits == IF text # <<>> /\ Head(text) = "-" THEN Tail(text) ELSE text
    IN  /\ digits # <<>>
        /\ \A k \in 1..Len(digits) : digits[k] \in Digits

DigitValue(c) ==
    CASE c = "0" -> 0
      [] c = "1" -> 1
      [] c = "2" -> 2
      [] c = "5" -> 5
      [] c = "8" -> 8

\* the value of a sequence of digits
RECURSIVE Magnitude(_)
Magnitude(digits) ==
    IF digits = <<>> THEN 0
    ELSE 10 * Magnitude(SubSeq(digits, 1, Len(digits) - 1))
             + DigitValue(digits[Len(digits)])

\* int(text) of a numeric text
ToInt(text) ==
    IF Head(text) = "-" THEN 0 - Magnitude(Tail(text)) ELSE Magnitude(text)

\* the valid range of an activity value, inclusive
InActivityRangeExclusive(v) == ACTIVITY_MIN < v /\ v < ACTIVITY_MAX
InActivityRange(v) == ACTIVITY_MIN <= v /\ v <= ACTIVITY_MAX

\* a rank is a positive integer
IsPositiveOrZero(v) == v >= 0
IsPositive(v) == v > 0

NoPrs == [pc |-> "idle", fn |-> "none", raw_text |-> <<>>, outcome |-> "none",
          ret |-> 0]

\* parse_activity(raw_text)
parse_activity ==
    /\ prs.pc = "call"
    /\ prs.fn = "parse_activity"
    /\ LET corrected == Correct(prs.raw_text)
       IN  prs' = IF ~Numeric(corrected)
                  THEN [prs EXCEPT !.pc = "done", !.outcome = "OCRConfidenceError"]
                  ELSE IF ~InActivityRange(ToInt(corrected))
                  THEN [prs EXCEPT !.pc = "done", !.outcome = "ParseError"]
                  ELSE [prs EXCEPT !.pc = "done", !.outcome = "returned",
                                   !.ret = ToInt(corrected)]
    /\ UNCHANGED <<base_vars, det, run, col>>

\* parse_rank(raw_text)
parse_rank ==
    /\ prs.pc = "call"
    /\ prs.fn = "parse_rank"
    /\ LET corrected == Correct(prs.raw_text)
       IN  prs' = IF ~Numeric(corrected)
                  THEN [prs EXCEPT !.pc = "done", !.outcome = "ParseError"]
                  ELSE IF ~IsPositive(ToInt(corrected))
                  THEN [prs EXCEPT !.pc = "done", !.outcome = "ParseError"]
                  ELSE [prs EXCEPT !.pc = "done", !.outcome = "returned",
                                   !.ret = ToInt(corrected)]
    /\ UNCHANGED <<base_vars, det, run, col>>

\* no tool is in use
ToolsIdle ==
    /\ det = NoDet
    /\ run = NoRun
    /\ col = NoCol
    /\ prs = NoPrs

----------------------------------------------------------------------------
(* The specification *)

Init ==
    /\ now = 0
    /\ stack = <<>>
    /\ result = "none"
    /\ wfs = NoWfs
    /\ stab = NoStab
    /\ home = NoHome
    /\ rank = NoArgs
    /\ filt = NoFilt
    /\ entry = NoEntry
    /\ stale = FALSE
    /\ trace = <<>>
    /\ system = "Windows"
    /\ dev = NoDev
    /\ cap = NoCap
    /\ shot = NoShot
    /\ clk = NoClk
    /\ pointer = <<>>
    /\ disk = NoDisk
    /\ calls = 0
    /\ ToolsIdle

Next ==
    \/ EnterWaitForScreen
    \/ EnterWaitForStability
    \/ EnterNavigate
    \/ EnterRanking
    \/ EnterFilter
    \/ wait_for_screen_start
    \/ wait_for_screen_imread
    \/ wait_for_screen_check
    \/ wait_for_screen_poll
    \/ wait_for_screen_sleep
    \/ wait_for_stability_start
    \/ wait_for_stability_check
    \/ wait_for_stability_sleep
    \/ wait_for_stability_poll
    \/ navigate_home_loop
    \/ navigate_home_found
    \/ navigate_home_except
    \/ navigate_home_final
    \/ navigate_to_guild_members_click_guild
    \/ navigate_to_guild_members_wait_hall
    \/ navigate_to_guild_members_click_menu
    \/ navigate_to_guild_members_wait_list
    \/ navigate_to_guild_members_done
    \/ navigate_to_ranking_call
    \/ navigate_to_ranking_done
    \/ ranking_click_battle_modes
    \/ ranking_wait_menu
    \/ ranking_click_mode
    \/ ranking_wait_mode
    \/ ranking_click_ranking
    \/ ranking_wait_ranking
    \/ ranking_apply_filter
    \/ ranking_done
    \/ apply_guild_filter_click_1
    \/ apply_guild_filter_stability
    \/ apply_guild_filter_click_2
    \/ apply_guild_filter_wait
    \/ apply_guild_filter_done

Spec == Init /\ [][Next]_vars

\* the interpreter does not stop between two statements: while a step of
\* the program is possible, one is taken
SpecLive == Init /\ [][Next]_vars /\ WF_vars(Next)

\* a session of the capture layer, on either platform
InitCapture ==
    /\ now = 0
    /\ stack = <<>>
    /\ result = "none"
    /\ wfs = NoWfs
    /\ stab = NoStab
    /\ home = NoHome
    /\ rank = NoArgs
    /\ filt = NoFilt
    /\ entry = NoEntry
    /\ stale = FALSE
    /\ trace = <<>>
    /\ system \in {"Windows", "Linux"}
    /\ dev = NoDev
    /\ cap = NoCap
    /\ shot = NoShot
    /\ clk = NoClk
    /\ pointer = <<>>
    /\ disk = NoDisk
    /\ calls = 0
    /\ ToolsIdle

NextCapture ==
    \/ EnterCaptureWindow
    \/ EnterSaveDebugScreenshot
    \/ EnterGameClick
    \/ caller_sleep
    \/ capture_window_find
    \/ capture_window_enter
    \/ capture_window_grab
    \/ capture_window_exit
    \/ capture_window_check
    \/ save_debug_screenshot_mkdir
    \/ save_debug_screenshot_try
    \/ save_debug_screenshot_captured
    \/ save_debug_screenshot_except
    \/ save_debug_screenshot_fallback_grab
    \/ save_debug_screenshot_fallback_exit
    \/ save_debug_screenshot_imwrite
    \/ game_click_find
    \/ game_click_click

SpecCapture == InitCapture /\ [][NextCapture]_vars

\* the state before any call, of every layer but the tools
BaseIdle ==
    /\ now = 0
    /\ stack = <<>>
    /\ result = "none"
    /\ wfs = NoWfs
    /\ stab = NoStab
    /\ home = NoHome
    /\ rank = NoArgs
    /\ filt = NoFilt
    /\ entry = NoEntry
    /\ stale = FALSE
    /\ trace = <<>>
    /\ system = "Windows"
    /\ dev = NoDev
    /\ cap = NoCap
    /\ shot = NoShot
    /\ clk = NoClk
    /\ pointer = <<>>
    /\ disk = NoDisk
    /\ calls = 0

\* one call of detect_card_positions, on any frame and card template
InitCards ==
    /\ BaseIdle
    /\ det \in {[NoDet EXCEPT !.pc = "imread", !.loaded = loaded,
                              !.locations = locations, !.template_h = template_h] :
                    loaded \in BOOLEAN, locations \in SUBSET (Ys \X Columns),
                    template_h \in TemplateHeights}
    /\ run = NoRun
    /\ col = NoCol
    /\ prs = NoPrs

NextCards ==
    \/ detect_card_positions_imread
    \/ detect_card_positions_match
    \/ detect_card_positions_cluster
    \/ detect_card_positions_return

SpecCards == InitCards /\ [][NextCards]_vars

\* one run of the scroll subcommand, on any modes and step count
InitScroll ==
    /\ BaseIdle
    /\ det = NoDet
    /\ col = NoCol
    /\ prs = NoPrs
    /\ run \in {[NoRun EXCEPT !.pc = "world", !.modes = modes,
                              !.scroll_steps = scroll_steps] :
                    modes \in ModeLists, scroll_steps \in 0..MaxScrollSteps}

NextScroll ==
    \/ cmd_scroll_world
    \/ cmd_scroll_loop
    \/ calibrate_mode_navigate
    \/ calibrate_mode_stability
    \/ calibrate_mode_steps_done
    \/ calibrate_mode_detect
    \/ calibrate_mode_scroll
    \/ calibrate_mode_home
    \/ cmd_scroll_except

SpecScroll == InitScroll /\ [][NextScroll]_vars

\* one call of scroll_and_collect, on any roster and cap
InitCollect ==
    /\ BaseIdle
    /\ det = NoDet
    /\ run = NoRun
    /\ prs = NoPrs
    /\ col \in {[NoCol EXCEPT !.pc = "wait", !.roster = roster,
                              !.max_steps = max_steps] :
                    roster \in Rosters, max_steps \in 1..MaxCollectSteps}

NextCollect ==
    \/ scroll_and_collect_stability
    \/ scroll_and_collect_detect
    \/ scroll_and_collect_card
    \/ scroll_and_collect_step

SpecCollect == InitCollect /\ [][NextCollect]_vars

\* one call of a numeric field parser, on any text
InitParse ==
    /\ BaseIdle
    /\ det = NoDet
    /\ run = NoRun
    /\ col = NoCol
    /\ prs \in {[NoPrs EXCEPT !.pc = "call", !.fn = fn, !.raw_text = raw_text] :
                    fn \in {"parse_activity", "parse_rank"}, raw_text \in Texts}

NextParse ==
    \/ parse_activity
    \/ parse_rank

SpecParse == InitParse /\ [][NextParse]_vars

----------------------------------------------------------------------------
(* Properties *)

Last(tr) == tr[Len(tr)]

ClickCount == Cardinality({i \in DOMAIN trace : trace[i].ev = "click"})

CheckCount == Cardinality({i \in DOMAIN trace : trace[i].ev = "wait_for_screen"})

\* a wait_for_screen on template that succeeded on a frame captured after
\* every click issued so far
Confirmed(e, template) ==
    /\ e.ev = "wait_for_screen"
    /\ e.what = template
    /\ e.outcome = "ok"
    /\ e.fresh

\* the screen a navigation routine is meant to reach
Destination(fn) ==
    CASE fn = "navigate_home" -> "TEMPLATE_WORLD_SCREEN"
      [] fn = "navigate_to_guild_members" -> "TEMPLATE_GUILD_MEMBER_LIST"
      [] fn = "navigate_to_ranking" -> "TEMPLATE_RANKING_SCREEN"
      [] fn = "_navigate_to_ranking" -> "TEMPLATE_RANKING_SCREEN"
      [] fn = "apply_guild_filter" -> "TEMPLATE_RANKING_SCREEN"

NavigationRoutines ==
    { "navigate_home", "navigate_to_guild_members", "navigate_to_ranking",
      "_navigate_to_ranking", "apply_guild_filter" }

\* the labels at which a navigation routine does nothing more than return
ReturnLabels == {"done", "try_ret", "final_ret"}

\* C1: a navigation routine (top-level or nested) returns normally only when
\* the latest thing it did was a wait_for_screen on its destination template
\* that matched a frame captured after its last click; it never returns with
\* a click as its latest action.
C1_ReturnOnlyAfterConfirmation ==
    /\ (result = "ok" /\ entry.fn \in NavigationRoutines) =>
            /\ trace # <<>>
            /\ Confirmed(Last(trace), Destination(entry.fn))
    /\ (stack # <<>> /\ Top.fn \in NavigationRoutines /\ Top.pc \in ReturnLabels) =>
            /\ trace # <<>>
            /\ Confirmed(Last(trace), Destination(Top.fn))
            /\ ~stale

C1_Witness ==
    /\ result = "ok"
    /\ entry.fn = "navigate_to_ranking"
    /\ ClickCount = 5
    /\ Confirmed(Last(trace), "TEMPLATE_RANKING_SCREEN")

\* C2: wait_for_screen returns at the first poll whose score is >= the
\* confidence it was given (equality counts, the given confidence is the one
\* compared with): no activation has a matching poll without having returned
\* normally at that poll, so no capture follows it; when the first poll
\* matches there has been one capture and no sleep.
C2_ReturnsAtFirstMatch ==
    /\ wfs.hits <= 1
    /\ (wfs.hits = 1) = (wfs.outcome = "ok")
    /\ (wfs.captures > 0 /\ wfs.score >= wfs.confidence) => wfs.outcome = "ok"
    /\ wfs.outcome = "ok" => wfs.score >= wfs.confidence
    /\ wfs.firstHit => (wfs.outcome = "ok" /\ wfs.captures = 1 /\ wfs.sleeps = 0)

C2_Witness ==
    /\ wfs.outcome = "ok"
    /\ wfs.score = wfs.confidence
    /\ wfs.firstHit
    /\ wfs.captures = 1
    /\ wfs.sleeps = 0

\* C3: a deadline check of wait_for_screen made when the timeout has elapsed
\* raises TimeoutError; TimeoutError is raised only then and only when no
\* poll has matched; a normal return implies a matching poll.
C3_TimeoutOnlyAfterDeadline ==
    [][ /\ (At("wait_for_screen", "check") /\ now - wfs.start >= wfs.timeout) =>
                /\ wfs'.outcome = "TimeoutError"
                /\ wfs'.captures = wfs.captures
        /\ wfs'.outcome = "TimeoutError" =>
                /\ wfs'.hits = 0
                /\ now' - wfs'.start >= wfs'.timeout
        /\ wfs'.outcome = "ok" => wfs'.hits >= 1
      ]_vars

C3_Witness ==
    /\ wfs.outcome = "TimeoutError"
    /\ wfs.captures >= 2
    /\ wfs.score = 84
    /\ wfs.confidence = DEFAULT_CONFIDENCE

\* C4: when the template does not load, wait_for_screen raises
\* FileNotFoundError, whatever its timeout, having captured no frame and
\* slept not once; it captures only with a loaded template.
C4_MissingTemplateFailsFirst ==
    /\ (wfs.loaded = "no") = (wfs.outcome = "FileNotFoundError")
    /\ wfs.loaded = "no" => (wfs.captures = 0 /\ wfs.sleeps = 0)
    /\ wfs.captures > 0 => wfs.loaded = "yes"

C4_Witness ==
    /\ wfs.outcome = "FileNotFoundError"
    /\ wfs.timeout = 0
    /\ result = "FileNotFoundError"

\* C5: in wait_for_screen every failed poll is followed by one sleep of
\* POLL_INTERVAL before the next deadline check: at a deadline check and at
\* a poll there have been as many sleeps as captures, after a normal return
\* one sleep fewer than captures, and no sleep is of any other duration.
C5_OneFixedSleepPerFailedPoll ==
    /\ wfs.slept \subseteq {POLL_INTERVAL}
    /\ wfs.outcome = "ok" => wfs.sleeps = wfs.captures - 1
    /\ (At("wait_for_screen", "check") \/ At("wait_for_screen", "poll")) =>
            wfs.sleeps = wfs.captures
    /\ At("wait_for_screen", "sleep") => wfs.sleeps = wfs.captures - 1
    /\ wfs.outcome = "TimeoutError" => wfs.sleeps = wfs.captures

C5_Witness ==
    /\ wfs.outcome = "ok"
    /\ wfs.captures = 3
    /\ wfs.sleeps = 2
    /\ wfs.slept = {POLL_INTERVAL}

\* C6: wait_for_stability returns the capture it has just taken, at the
\* first poll whose difference from the capture just before it is below
\* STABILITY_THRESHOLD: every earlier poll was unstable, the returned frame
\* is never the initial capture, and while it runs prev is the latest
\* capture.
C6_ComparesWithPrecedingCapture ==
    /\ stab.outcome = "ok" =>
            /\ stab.ret.n = stab.captures
            /\ stab.ret.n >= 2
            /\ stab.prev.n = stab.ret.n - 1
            /\ AbsDiffMean(stab.prev, stab.ret) < STABILITY_THRESHOLD
            /\ stab.unstable = stab.captures - 2
    /\ (stab.outcome = "running" /\ stab.captures > 0) =>
            /\ stab.prev.n = stab.captures
            /\ stab.unstable = stab.captures - 1

\* the captures a, b, a, a: stable at the fourth capture only
C6_Witness ==
    /\ stab.outcome = "ok"
    /\ stab.captures = 4
    /\ stab.unstable = 2
    /\ stab.first.px = 0
    /\ stab.prev.px = 0
    /\ stab.ret.px = 0

\* C7: wait_for_stability raises TimeoutError at a deadline check made when
\* the timeout has elapsed, every poll before it having been unstable, and
\* it never returns a frame that differs from the capture before it by
\* STABILITY_THRESHOLD or more.
C7_NeverReturnsUnsettledFrame ==
    [][ /\ (At("wait_for_stability", "check") /\ now - stab.start >= stab.timeout) =>
                stab'.outcome = "TimeoutError"
        /\ stab'.outcome = "TimeoutError" =>
                /\ stab'.unstable = stab'.captures - 1
                /\ now' - stab'.start >= stab'.timeout
        /\ stab'.outcome = "ok" =>
                /\ stab'.prev.n + 1 = stab'.ret.n
                /\ ~(AbsDiffMean(stab'.prev, stab'.ret) >= STABILITY_THRESHOLD)
      ]_vars

C7_Witness ==
    /\ stab.outcome = "TimeoutError"
    /\ stab.captures >= 3
    /\ stab.unstable = stab.captures - 1
    /\ AbsDiffMean(stab.first, stab.prev) = STABILITY_THRESHOLD

\* C8: when navigate_home's first World-screen check succeeds, that check is
\* all it does: no click, no further check, and it returns normally.
C8_HomeAlreadyShowing ==
    (entry.fn = "navigate_home" /\ trace # <<>> /\ trace[1].outcome = "ok") =>
        /\ Confirmed(trace[1], "TEMPLATE_WORLD_SCREEN")
        /\ Len(trace) = 1
        /\ home.checks = 1
        /\ ClickCount = 0
        /\ \/ result = "ok"
           \/ stack = <<[fn |-> "navigate_home", pc |-> "try_ret"]>>

C8_Witness ==
    /\ entry.fn = "navigate_home"
    /\ result = "ok"
    /\ Len(trace) = 1
    /\ home.checks = 1

\* C9: navigate_home issues at most NAV_HOME_MAX_CLICKS clicks, all of them
\* "back", and at most NAV_HOME_MAX_CLICKS + 1 checks; the final check
\* starts only after NAV_HOME_MAX_CLICKS bounded checks have timed out, each
\* followed by a click, and nothing follows the final check.
C9_HomeBounded ==
    entry.fn = "navigate_home" =>
        /\ ClickCount <= NAV_HOME_MAX_CLICKS
        /\ CheckCount <= NAV_HOME_MAX_CLICKS + 1
        /\ home.checks <= NAV_HOME_MAX_CLICKS + 1
        /\ \A i \in DOMAIN trace : trace[i].ev = "click" => trace[i].what = "CLICK_BACK"
        /\ home.checks = NAV_HOME_MAX_CLICKS + 1 =>
                /\ Len(trace) \in {2 * NAV_HOME_MAX_CLICKS, 2 * NAV_HOME_MAX_CLICKS + 1}
                /\ \A i \in 1..NAV_HOME_MAX_CLICKS :
                        /\ trace[2 * i - 1].ev = "wait_for_screen"
                        /\ trace[2 * i - 1].outcome = "TimeoutError"
                        /\ trace[2 * i].ev = "click"
                /\ Len(trace) = 2 * NAV_HOME_MAX_CLICKS + 1 =>
                        Last(trace).ev = "wait_for_screen"

C9_Witness ==
    /\ entry.fn = "navigate_home"
    /\ result = "ok"
    /\ home.checks = NAV_HOME_MAX_CLICKS + 1
    /\ ClickCount = NAV_HOME_MAX_CLICKS
    /\ Len(trace) = 2 * NAV_HOME_MAX_CLICKS + 1

StabilityCount == Cardinality({i \in DOMAIN trace : trace[i].ev = "wait_for_stability"})

Step(ev, what) == [ev |-> ev, what |-> what]

\* tr is a beginning of steps, and every event of tr but the last succeeded
Follows(tr, steps) ==
    /\ Len(tr) <= Len(steps)
    /\ \A i \in DOMAIN tr :
        /\ tr[i].ev = steps[i].ev
        /\ tr[i].what = steps[i].what
        /\ i < Len(tr) => tr[i].outcome = "ok"

\* a failed wait is the last thing the call did, and its exception is how
\* the call ended
FailureEnds(tr) ==
    \A i \in DOMAIN tr :
        tr[i].outcome # "ok" =>
            /\ i = Len(tr)
            /\ stack = <<>>
            /\ result = tr[i].outcome

GuildMembersSteps ==
    << Step("click", "CLICK_GUILD"),
       Step("wait_for_screen", "TEMPLATE_GUILD_HALL"),
       Step("click", "CLICK_GUILD_MENU"),
       Step("wait_for_screen", "TEMPLATE_GUILD_MEMBER_LIST") >>

FilterOpeners == {RankingArgs(m).f1 : m \in Modes}

FilterSelectors == {RankingArgs(m).f2 : m \in Modes}

RankingSteps(mode) ==
    << Step("click", "CLICK_BATTLE_MODES"),
       Step("wait_for_screen", "TEMPLATE_BATTLE_MODES"),
       Step("click", RankingArgs(mode).click),
       Step("wait_for_screen", "TEMPLATE_MODE_SCREEN"),
       Step("click", RankingArgs(mode).ranking),
       Step("wait_for_screen", "TEMPLATE_RANKING_SCREEN"),
       Step("click", RankingArgs(mode).f1),
       Step("wait_for_stability", "stability"),
       Step("click", RankingArgs(mode).f2),
       Step("wait_for_screen", "TEMPLATE_RANKING_SCREEN") >>

Raised == IF Last(trace).ev = "wait_for_stability" THEN stab.msg ELSE wfs.msg

\* C16 as stated: whenever a navigation routine ends because an edge did not
\* confirm, the stability wait inside the filter included, the exception
\* that reaches the caller names the screen that failed to confirm.
C16_FailureNamesScreen ==
    (entry.fn \in NavigationRoutines /\ result = "TimeoutError") =>
        Raised.template \in Templates

\* C16: whenever a navigation routine ends because a wait_for_screen timed
\* out or could not load its template, the exception that reaches the caller
\* names the template of the step that failed (the same name for both
\* confirmations of the ranking screen) and, for a timeout, the timeout; the
\* TimeoutError of the stability wait names no screen.
C16_FailureNamesTemplate ==
    (entry.fn \in NavigationRoutines /\ result \in {"TimeoutError", "FileNotFoundError"}) =>
        /\ trace # <<>>
        /\ Last(trace).outcome = result
        /\ Last(trace).ev = "wait_for_screen" =>
                /\ Raised.template = Last(trace).what
                /\ Raised.template \in Templates
                /\ result = "TimeoutError" =>
                        Raised = TimeoutMessage(Last(trace).what, Last(trace).timeout)
                /\ entry.fn = "navigate_to_ranking" =>
                        Raised.template = RankingSteps(entry.mode)[Len(trace)].what
                /\ entry.fn = "navigate_to_guild_members" =>
                        Raised.template = GuildMembersSteps[Len(trace)].what
                /\ entry.fn = "navigate_home" => Raised.template = "TEMPLATE_WORLD_SCREEN"
        /\ Last(trace).ev = "wait_for_stability" =>
                /\ result = "TimeoutError"
                /\ Raised = StabilityMessage(FRAME_STABILITY_TIMEOUT)
                /\ Raised.template = "none"

\* the re-confirmation of the ranking screen after the filter times out
C16_Witness ==
    /\ entry.fn = "navigate_to_ranking"
    /\ result = "TimeoutError"
    /\ Len(trace) = 10
    /\ Raised.template = "TEMPLATE_RANKING_SCREEN"
    /\ trace[6].what = "TEMPLATE_RANKING_SCREEN"

\* the reasons capture_window has to fail, read off the environment: no
\* window (or process), a client area measured at another size, a capture of
\* another size
WindowMissing == ~cap.window.present

MeasuredMismatch ==
    /\ system = "Windows"
    /\ cap.window.present
    /\ <<cap.window.width, cap.window.height>> # <<GAME_WIDTH, GAME_HEIGHT>>

CapturedMismatch ==
    /\ cap.screenshot # NoScreenshot
    /\ cap.screenshot.shape # <<GAME_HEIGHT, GAME_WIDTH, 4>>

\* C17: capture_window ends either with RuntimeError or with a frame of
\* shape (GAME_HEIGHT, GAME_WIDTH, 3) grabbed from the region
\* find_game_window returned; it ends with RuntimeError exactly when the
\* window was not located, its client area was measured at another size, or
\* the capture had another size, and it returns a frame in no other case.
C17_CaptureExactOrFail ==
    /\ cap.outcome \in {"none", "running", "ok", "RuntimeError"}
    /\ cap.outcome = "ok" =>
            /\ cap.ret.shape = <<GAME_HEIGHT, GAME_WIDTH, 3>>
            /\ cap.ret.region = cap.geometry
            /\ cap.geometry = find_game_window(system, cap.window).geometry
            /\ cap.geometry.width = GAME_WIDTH /\ cap.geometry.height = GAME_HEIGHT
            /\ ~WindowMissing /\ ~MeasuredMismatch /\ ~CapturedMismatch
    /\ cap.outcome = "RuntimeError" =>
            WindowMissing \/ MeasuredMismatch \/ CapturedMismatch
    /\ cap.ret # NoScreenshot => cap.outcome = "ok"
    /\ (entry.fn = "capture_window" /\ stack = <<>>) => result = cap.outcome

\* the window is there and measures right, the capture comes out smaller
C17_Witness ==
    /\ entry.fn = "capture_window"
    /\ result = "RuntimeError"
    /\ cap.window.present
    /\ ~MeasuredMismatch
    /\ cap.screenshot.shape = <<OtherHeight, OtherWidth, 4>>
    /\ cap.screenshot.region = cap.geometry

\* where a with mss.mss() block is open
InsideWith ==
    /\ stack # <<>>
    /\ \/ Top.fn = "capture_window" /\ Top.pc \in {"grab", "exit"}
       \/ Top.fn = "save_debug_screenshot" /\ Top.pc \in {"fallback_grab", "fallback_exit"}

C19_DebugScreenshotFallsBack ==
    entry.fn = "save_debug_screenshot" =>
        /\ result \in {"running", "ok"}
        /\ shot.written <= 1
        /\ cap.outcome = "RuntimeError" => (stack # <<>> \/ result = "ok")
        /\ result = "ok" =>
                /\ shot.written = 1
                /\ disk.dir
                /\ shot.ret = shot.filepath
                /\ shot.ret.context = shot.context
                /\ [path |-> shot.ret, source |-> shot.source] \in disk.files
                /\ cap.outcome \in {"ok", "RuntimeError"}
                /\ cap.outcome = "RuntimeError" =>
                        /\ shot.caught
                        /\ shot.source = "monitor"
                        /\ shot.frame.region = PrimaryMonitor
                /\ cap.outcome = "ok" =>
                        /\ ~shot.caught
                        /\ shot.source = "window"
                        /\ shot.frame = cap.ret

C19_Witness ==
    /\ entry.fn = "save_debug_screenshot"
    /\ result = "ok"
    /\ cap.error = "Game window not found"
    /\ shot.source = "monitor"
    /\ shot.written = 1
    /\ \E f \in disk.files : f.path = shot.ret /\ f.source = "monitor"

----------------------------------------------------------------------------
(* Timeouts and poll boundaries *)

\* C31: in both waits TimeoutError is raised only by the loop condition,
\* when it finds the deadline passed, and never while a poll is under way:
\* a poll of wait_for_screen that has begun always takes its capture, and
\* the sleep of wait_for_stability is always followed by its capture (a
\* capture can fail only with the RuntimeError of a missing window); and
\* when the poll matches, or is stable, the wait returns, also when the
\* deadline has passed while the poll was running.
C31_TimeoutOnlyAtPollBoundary ==
    [][/\ wfs'.outcome = "TimeoutError" /\ wfs.outcome # "TimeoutError" =>
              /\ At("wait_for_screen", "check")
              /\ now - wfs.start >= wfs.timeout
              /\ now' = now
              /\ wfs'.captures = wfs.captures
       /\ stab'.outcome = "TimeoutError" /\ stab.outcome # "TimeoutError" =>
              /\ At("wait_for_stability", "check")
              /\ now - stab.start >= stab.timeout
              /\ now' = now
              /\ stab'.captures = stab.captures
       /\ At("wait_for_screen", "poll") =>
              /\ \/ wfs'.captures = wfs.captures + 1
                 \/ wfs'.outcome = "RuntimeError"
              /\ wfs'.captures = wfs.captures + 1 /\ wfs'.score >= wfs.confidence =>
                     wfs'.outcome = "ok" /\ Len(stack') = Len(stack) - 1
       /\ At("wait_for_stability", "sleep") =>
              stack' = [stack EXCEPT ![Len(stack)].pc = "poll"]
       /\ At("wait_for_stability", "poll") =>
              /\ \/ stab'.captures = stab.captures + 1
                 \/ stab'.outcome = "RuntimeError"
              /\ stab'.captures = stab.captures + 1 /\ stab'.unstable = stab.unstable =>
                     stab'.outcome = "ok" /\ Len(stack') = Len(stack) - 1]_vars

\* wait_for_screen has returned from its second poll or a later one, which
\* ended at or after the deadline
C31_Witness ==
    /\ wfs.outcome = "ok"
    /\ wfs.timeout > 0
    /\ wfs.captures > 1
    /\ now - wfs.start >= wfs.timeout

\* C32: when wait_for_screen reads its deadline for the first time and the
\* deadline has passed already (the timeout is zero, or loading the template
\* took at least the timeout), it raises TimeoutError without having
\* captured a frame, whatever the screen shows; so a wait_for_screen that
\* returned has captured at least one frame.
C32_PassedDeadlineNoCapture ==
    [][/\ /\ At("wait_for_screen", "check")
          /\ wfs.captures = 0
          /\ now - wfs.start >= wfs.timeout
          => /\ wfs'.outcome = "TimeoutError"
             /\ wfs'.captures = 0
             /\ trace' = Append(trace, WaitEvent("wait_for_screen", wfs.template,
                                                 wfs.timeout, "TimeoutError"))
       /\ wfs'.outcome = "ok" => wfs'.captures >= 1]_vars

\* a wait with a positive timeout has timed out without a capture: loading
\* the template used up the timeout
C32_Witness ==
    /\ wfs.outcome = "TimeoutError"
    /\ wfs.timeout > 0
    /\ wfs.captures = 0
    /\ now - wfs.start >= wfs.timeout

(* navigate_home: clicks and checks *)

\* the i-th event of navigate_home's trace is a check of the bounded phase
BoundedCheck(i) ==
    /\ trace[i].ev = "wait_for_screen"
    /\ i < 2 * NAV_HOME_MAX_CLICKS + 1

TimedOutBoundedChecks ==
    Cardinality({i \in DOMAIN trace : BoundedCheck(i) /\ trace[i].outcome = "TimeoutError"})

\* every "back" click comes directly after a World-screen check that timed
\* out and, once navigate_home has ended, directly before another
\* World-screen check; the checks of the bounded phase use
\* NAV_HOME_CHECK_TIMEOUT and the final check WAIT_TIMEOUT
ClicksBetweenChecks ==
    /\ \A i \in DOMAIN trace :
            trace[i].ev = "click" =>
                /\ trace[i].what = "CLICK_BACK"
                /\ i > 1
                /\ trace[i - 1].ev = "wait_for_screen"
                /\ trace[i - 1].what = "TEMPLATE_WORLD_SCREEN"
                /\ trace[i - 1].outcome = "TimeoutError"
                /\ i < Len(trace) =>
                        /\ trace[i + 1].ev = "wait_for_screen"
                        /\ trace[i + 1].what = "TEMPLATE_WORLD_SCREEN"
                /\ stack = <<>> => i < Len(trace)
    /\ \A i \in DOMAIN trace :
            trace[i].ev = "wait_for_screen" =>
                trace[i].timeout = IF BoundedCheck(i) THEN NAV_HOME_CHECK_TIMEOUT
                                   ELSE WAIT_TIMEOUT

\* C34 as stated: clicks and checks alternate as above, and when
\* navigate_home has ended it has clicked "back" as many times as bounded
\* checks have timed out.
C34_ClicksEqualTimeouts ==
    entry.fn = "navigate_home" =>
        /\ ClicksBetweenChecks
        /\ stack = <<>> => ClickCount = TimedOutBoundedChecks

\* C34: in navigate_home every "back" click comes directly after a
\* World-screen check that timed out and is followed by another World-screen
\* check before any further click; every check of the bounded phase uses
\* NAV_HOME_CHECK_TIMEOUT and only the final check uses WAIT_TIMEOUT; and
\* when navigate_home has ended, the number of "back" clicks equals the
\* number of bounded checks that timed out, except when the game window was
\* not found for the click after the last of them: navigate_home then ended
\* with RuntimeError and that one click was not made.
C34_ClicksFollowTimeouts ==
    entry.fn = "navigate_home" =>
        /\ ClicksBetweenChecks
        /\ stack = <<>> =>
                IF BoundedCheck(Len(trace)) /\ Last(trace).outcome = "TimeoutError"
                THEN /\ result = "RuntimeError"
                     /\ ClickCount = TimedOutBoundedChecks - 1
                ELSE ClickCount = TimedOutBoundedChecks

\* one check timed out and was answered by a click, the next timed out too
\* and the window was missing for its click
C34_Witness ==
    /\ entry.fn = "navigate_home"
    /\ stack = <<>>
    /\ result = "RuntimeError"
    /\ ClickCount = 1
    /\ TimedOutBoundedChecks = 2
    /\ Last(trace).timeout = NAV_HOME_CHECK_TIMEOUT

\* C35: when a World-screen check of navigate_home fails with anything but
\* TimeoutError (the template cannot be loaded, or the game window is not
\* found), navigate_home ends there with that exception: the failed check
\* is the last thing it did, no "back" click and no further check follow;
\* a "back" click is made only after a check that raised TimeoutError.
C35_OnlyTimeoutIsRetried ==
    entry.fn = "navigate_home" =>
        /\ \A i \in DOMAIN trace :
                /\ trace[i].ev = "wait_for_screen"
                /\ trace[i].outcome \notin {"ok", "TimeoutError"}
                => /\ i = Len(trace)
                   /\ stack = <<>>
                   /\ result = trace[i].outcome
                   /\ home.checks = CheckCount
        /\ \A i \in DOMAIN trace :
                trace[i].ev = "click" => i > 1 /\ trace[i - 1].outcome = "TimeoutError"
        /\ At("navigate_home", "except") => Last(trace).outcome = "TimeoutError"

\* the recovery was under way (a check timed out and "back" was clicked)
\* when the window was missing for the next check
C35_Witness ==
    /\ entry.fn = "navigate_home"
    /\ result = "RuntimeError"
    /\ ClickCount = 1
    /\ Len(trace) = 3
    /\ Last(trace).ev = "wait_for_screen"
    /\ Last(trace).outcome = "RuntimeError"

(* The ranking routines compared *)

\* the waits of a sequence of events or steps, clicks left out
WaitsOf(tr) == SelectSeq(tr, LAMBDA e : e.ev # "click")

CommonWaits ==
    << Step("wait_for_screen", "TEMPLATE_BATTLE_MODES"),
       Step("wait_for_screen", "TEMPLATE_MODE_SCREEN"),
       Step("wait_for_screen", "TEMPLATE_RANKING_SCREEN"),
       Step("wait_for_stability", "stability"),
       Step("wait_for_screen", "TEMPLATE_RANKING_SCREEN") >>

CeilDiv(a, b) == (a + b - 1) \div b

\* the polls of a wait: every capture of wait_for_screen, and every capture
\* of wait_for_stability but the initial one
ScreenPolls == wfs.captures

StabilityPolls == IF stab.captures = 0 THEN 0 ELSE stab.captures - 1

\* C33: every sleep advancing the clock by POLL_INTERVAL at least,
\* wait_for_screen and wait_for_stability make at most
\* ceil(timeout / POLL_INTERVAL) polls, whatever the frames, and every call
\* of a wait, of navigate_home or of another navigation routine comes to
\* an end, by a return or by an exception.
C33_WaitsTerminate ==
    /\ [](ScreenPolls <= CeilDiv(wfs.timeout, POLL_INTERVAL))
    /\ [](StabilityPolls <= CeilDiv(stab.timeout, POLL_INTERVAL))
    /\ (stack # <<>>) ~> (stack = <<>> /\ result # "running")

\* a wait with a timeout of more than one interval has used every poll it
\* is allowed and has timed out
C33_Witness ==
    /\ wfs.outcome = "TimeoutError"
    /\ wfs.timeout > POLL_INTERVAL
    /\ ScreenPolls = CeilDiv(wfs.timeout, POLL_INTERVAL)
    /\ stack = <<>>

----------------------------------------------------------------------------
(* Card detection *)

\* detect_card_positions has returned after clustering
Clustered == det.pc = "done" /\ det.y_values # <<>>

\* the clusters one after the other
RECURSIVE Flatten(_)
Flatten(lists) == IF lists = <<>> THEN <<>> ELSE Head(lists) \o Flatten(Tail(lists))

\* the coordinates are in one cluster
SameCluster(a, b) ==
    \E k \in 1..Len(det.clusters) :
        a \in SetOf(det.clusters[k]) /\ b \in SetOf(det.clusters[k])

Distance(a, b) == IF a < b THEN b - a ELSE a - b

\* C21: the sorted unique coordinates are taken in order, and each next one
\* joins the current cluster exactly when its gap to that cluster's first
\* member is below the template height and otherwise starts a new cluster:
\* at every point of the loop the clusters are the coordinates taken so far
\* in order, every member is closer than the template height to the first
\* member of its cluster, and the first member of every later cluster is at
\* least the template height above the first member of the cluster before.
\* One position is returned per cluster; for the coordinates
\* [10, 12, 15, 200, 205] and template height 30 that is exactly two.
C21_ClusterByFirstMember ==
    det.pc \in {"cluster", "done"} /\ det.clusters # <<>> =>
        /\ Flatten(det.clusters) = SubSeq(det.y_values, 1, det.i - 1)
        /\ \A k \in 1..Len(det.y_values) :
               k < Len(det.y_values) => det.y_values[k] < det.y_values[k + 1]
        /\ SetOf(det.y_values) = {l[1] : l \in det.locations}
        /\ \A k \in 1..Len(det.clusters) :
               /\ \A j \in 1..Len(det.clusters[k]) :
                      det.clusters[k][j] - det.clusters[k][1] < det.template_h
               /\ k > 1 => det.clusters[k][1] - det.clusters[k - 1][1] >= det.template_h
        /\ det.pc = "done" =>
               /\ Len(det.ret) = Len(det.clusters)
               /\ (det.y_values = <<10, 12, 15, 200, 205>> /\ det.template_h = 30
                       => Len(det.ret) = 2)

C21_Witness ==
    /\ Clustered
    /\ det.y_values = <<10, 12, 15, 200, 205>>
    /\ det.template_h = 30
    /\ det.clusters = << <<10, 12, 15>>, <<200, 205>> >>
    /\ Len(det.ret) = 2

\* C22 as stated: two detected coordinates are in the same cluster if and
\* only if they are closer than one template height, and no two clusters
\* overlap.
C22_SameClusterIffClose ==
    Clustered =>
        /\ \A a, b \in SetOf(det.y_values) :
               SameCluster(a, b) <=> Distance(a, b) < det.template_h
        /\ \A k, l \in 1..Len(det.clusters) :
               k < l => \A a \in SetOf(det.clusters[k]), b \in SetOf(det.clusters[l]) : a < b

\* C22, amended: two detected coordinates in the same cluster are closer
\* than one template height, and no two clusters overlap: every member of a
\* cluster lies below every member of each later cluster.  Two coordinates
\* closer than one template height may still lie in different clusters.
C22_SameClusterOnlyIfClose ==
    Clustered =>
        /\ \A a, b \in SetOf(det.y_values) :
               SameCluster(a, b) => Distance(a, b) < det.template_h
        /\ \A k, l \in 1..Len(det.clusters) :
               k < l => \A a \in SetOf(det.clusters[k]), b \in SetOf(det.clusters[l]) : a < b

\* coordinates closer than the template height, clustered apart
C22_Witness ==
    /\ Clustered
    /\ \E a, b \in SetOf(det.y_values) :
           /\ Distance(a, b) < det.template_h
           /\ ~SameCluster(a, b)
    /\ \E k \in 1..Len(det.clusters) : Len(det.clusters[k]) > 1

\* C23 as stated: the position returned for a cluster is the mean of its
\* members rounded to the nearest integer, that is, it differs from the
\* mean by at most one half.
C23_NearestInteger ==
    Clustered =>
        \A k \in 1..Len(det.clusters) :
            LET n == Len(det.clusters[k])
                d == n * det.ret[k] - Sum(det.clusters[k])
            IN  2 * d <= n /\ 2 * (0 - d) <= n

\* C24 as stated: a frame with no card match, or a card template that does
\* not load, ends detection with a DetectionError and never with an empty
\* list.
C24_NoEmptyList ==
    det.pc = "done" /\ (~det.loaded \/ det.locations = {}) =>
        /\ det.outcome = "DetectionError"
        /\ det.ret # <<>>

Max(S) == CHOOSE m \in S : \A e \in S : e <= m

\* C40: whatever the frame and the card template, the list returned by
\* detect_card_positions is strictly increasing, has one entry per cluster
\* and no more entries than there are distinct matching rows; each entry
\* lies between the smallest and the largest member of its cluster, the
\* span of every cluster is below the template height, and the first
\* members of consecutive clusters are at least the template height apart.
C40_PositionsOrderedWithinClusters ==
    det.pc = "done" =>
        /\ Len(det.ret) = Len(det.clusters)
        /\ Len(det.ret) <= Cardinality({l[1] : l \in det.locations})
        /\ \A k \in 1..Len(det.ret) :
               LET members == SetOf(det.clusters[k])
               IN  /\ members # {}
                   /\ Min(members) <= det.ret[k]
                   /\ det.ret[k] <= Max(members)
                   /\ Max(members) - Min(members) < det.template_h
                   /\ k > 1 =>
                          /\ det.ret[k - 1] < det.ret[k]
                          /\ det.clusters[k][1] - det.clusters[k - 1][1]
                                 >= det.template_h

\* three positions returned, one of them for a cluster of three rows and
\* one for a cluster whose mean is not one of its rows
C40_Witness ==
    /\ det.pc = "done"
    /\ Len(det.ret) = 3
    /\ \E k \in 1..3 : Len(det.clusters[k]) > 2
    /\ \E k \in 1..3 :
           /\ Len(det.clusters[k]) > 1
           /\ det.ret[k] \notin SetOf(det.clusters[k])

----------------------------------------------------------------------------
(* The scroll subcommand *)

\* C25 as stated: an exception raised while a mode is processed is fatal:
\* from then on the run is handling it or has exited with a failure status
\* and a diagnostic screenshot, and nothing is navigated, scrolled or saved
\* for any later mode.
C25_FailureIsFatal ==
    \A k \in 1..Len(run.raised) :
        /\ \/ run.pc = "except"
           \/ /\ run.pc = "exited"
              /\ run.exit = 1
              /\ run.screenshots = <<FailContext(run.modes[run.raised[k].m])>>
        /\ \A j \in 1..Len(run.events) : run.events[j].m <= run.raised[k].m

\* the events of the run of the given kind that ended normally, for the
\* mode at index m
Done(kind, m) ==
    {i \in 1..Len(run.events) :
         /\ run.events[i].kind = kind
         /\ run.events[i].m = m
         /\ run.events[i].exc = "none"}

\* event i is directly preceded by a normally ended event of one of the
\* kinds, for the same mode
Preceded(i, kinds) ==
    /\ i > 1
    /\ run.events[i - 1].kind \in kinds
    /\ run.events[i - 1].exc = "none"
    /\ run.events[i - 1].m = run.events[i].m

\* C36: for every mode the scroll loop issues at most max_steps scrolls;
\* every stability wait directly follows the mode's navigation or a scroll,
\* every card detection directly follows a stability wait that returned and
\* runs on the frame that wait returned, and every scroll directly follows
\* a card detection; so no detection runs on another frame and no scroll is
\* issued in an iteration whose stability wait failed.
C36_ScrollLoopOrder ==
    /\ \A m \in 1..Len(run.modes) : Cardinality(Done("scroll", m)) <= run.scroll_steps
    /\ \A i \in 1..Len(run.events) :
           LET e == run.events[i]
           IN  /\ e.kind \in {"stable", "unstable"} => Preceded(i, {"navigate", "scroll"})
               /\ e.kind = "stable" =>
                      \A j \in 1..(i - 1) : run.events[j].frame # e.frame
               /\ e.kind = "detect" =>
                      /\ Preceded(i, {"stable"})
                      /\ run.events[i - 1].frame = e.frame
               /\ e.kind = "scroll" => Preceded(i, {"detect"})

\* a mode was scrolled twice, the full count, and the next mode's first
\* stability wait failed
C36_Witness ==
    /\ run.scroll_steps = 2
    /\ Cardinality(Done("scroll", 1)) = 2
    /\ Cardinality(Done("detect", 1)) = 2
    /\ run.events # <<>>
    /\ run.events[Len(run.events)].kind = "unstable"
    /\ run.events[Len(run.events)].m = 2

\* C37: once a mode's navigation succeeded, navigate_home is called for it
\* at most once, and only directly after the loop has ended: after the last
\* of max_steps scrolls, after the navigation itself when max_steps is 0, or
\* after a stability wait that raised TimeoutError.  That TimeoutError is
\* not propagated: control goes on to navigate_home, which is the next thing
\* done for the mode, with no scroll or detection after it.  When the run
\* moves on to a later mode or completes, navigate_home has been called
\* exactly once for every earlier mode.
C37_HomeOnceAfterLoop ==
    /\ \A i \in 1..Len(run.events) :
           LET e == run.events[i]
           IN  /\ e.kind = "home" =>
                      /\ \A j \in 1..(i - 1) :
                             ~(run.events[j].kind = "home" /\ run.events[j].m = e.m)
                      /\ \/ /\ Preceded(i, {"scroll"})
                            /\ Cardinality(Done("scroll", e.m)) = run.scroll_steps
                         \/ Preceded(i, {"navigate"}) /\ run.scroll_steps = 0
                         \/ /\ run.events[i - 1].kind = "unstable"
                            /\ run.events[i - 1].exc = "TimeoutError"
                            /\ run.events[i - 1].m = e.m
               /\ e.kind = "unstable" /\ e.exc = "TimeoutError" =>
                      IF i = Len(run.events)
                      THEN run.pc = "home" /\ run.exit = "none"
                      ELSE run.events[i + 1].kind = "home" /\ run.events[i + 1].m = e.m
    /\ \A m \in 1..Len(run.modes) :
           m < run.m \/ run.pc = "complete" =>
               \E i \in 1..Len(run.events) :
                   run.events[i].kind = "home" /\ run.events[i].m = m

\* the run completed; the loop of the first mode was stopped by a stability
\* timeout after a scroll, the loop of the second ran all its steps
C37_Witness ==
    /\ run.pc = "complete"
    /\ Len(run.modes) = 2
    /\ Cardinality(Done("scroll", 1)) = 1
    /\ Cardinality(Done("scroll", 2)) = run.scroll_steps
    /\ \E i \in 1..Len(run.events) :
           /\ run.events[i].kind = "unstable"
           /\ run.events[i].exc = "TimeoutError"
           /\ run.events[i].m = 1
    /\ Cardinality(Done("home", 1)) = 1
    /\ Cardinality(Done("home", 2)) = 1

\* C38: every call of a mode's navigator directly follows a confirmation of
\* the World screen, the initial check for the first mode and the return of
\* the previous mode's navigate_home for a later one, with nothing done in
\* between; and when the initial check fails with TimeoutError or
\* FileNotFoundError the run exits with nothing done at all.
C38_NavigationStartsAtWorld ==
    /\ \A i \in 1..Len(run.events) :
           run.events[i].kind = "navigate" =>
               /\ i > 1
               /\ run.events[i - 1].kind = "world"
               /\ run.events[i - 1].exc = "none"
               /\ run.events[i - 1].m = run.events[i].m - 1
    /\ run.m = 0 /\ run.exc \in {"TimeoutError", "FileNotFoundError"} =>
           /\ run.pc = "exited"
           /\ run.exit = 1
           /\ run.events = <<>>

\* the second mode's navigator was called, after the navigate_home of the
\* first, whose loop had scrolled
C38_Witness ==
    /\ \E i \in 2..Len(run.events) :
           /\ run.events[i].kind = "navigate"
           /\ run.events[i].m = 2
           /\ run.events[i - 1].kind = "world"
           /\ run.events[i - 2].kind = "home"
    /\ Cardinality(Done("scroll", 1)) > 0

----------------------------------------------------------------------------
(* The collection loop *)

CardFailures == {"OCRConfidenceError", "ParseError", "no_match"}

C27_FirstOccurrenceWins ==
    /\ DOMAIN col.result \subseteq col.roster
    /\ DOMAIN col.result = DOMAIN col.first
    /\ \A n \in DOMAIN col.result : col.result[n] = col.first[n].value

\* a name was sighted again in a later step with another value, and the
\* collection returned
C27_Witness ==
    /\ col.pc = "done"
    /\ col.outcome = "returned"
    /\ col.stale
    /\ Cardinality(DOMAIN col.result) > 1

----------------------------------------------------------------------------
(* The field parsers *)

Returned(fn) == prs.pc = "done" /\ prs.fn = fn /\ prs.outcome = "returned"

Failed(fn, exception) == prs.pc = "done" /\ prs.fn = fn /\ prs.outcome = exception

\* the text reads as an integer once O is read as 0 and l, I as 1
ReadsAsInteger(text) ==
    \E n \in 1..Len(text) :
        /\ \A k \in 1..Len(text) :
               \/ text[k] \in Digits \cup {"O", "l", "I"}
               \/ k = 1 /\ text[k] = "-" /\ Len(text) > 1
        /\ text[n] # "-"

\* C29: parse_activity corrects the digits (O -> 0, l/I -> 1) and returns
\* the integer if and only if it lies in 0..1080: a text that is not numeric
\* after correction fails with OCRConfidenceError, a number outside 0..1080
\* with ParseError, and any other text returns its value, which is in
\* 0..1080; "5OO" gives 500, "1081" and "-1" fail with ParseError.
C29_ActivityInRange ==
    prs.pc = "done" /\ prs.fn = "parse_activity" =>
        /\ prs.outcome \in {"returned", "ParseError", "OCRConfidenceError"}
        /\ prs.outcome = "OCRConfidenceError" <=> ~ReadsAsInteger(prs.raw_text)
        /\ prs.outcome = "returned" =>
               /\ prs.ret \in 0..1080
               /\ prs.ret = ToInt(Correct(prs.raw_text))
        /\ prs.outcome = "ParseError" =>
               ToInt(Correct(prs.raw_text)) \notin 0..1080
        /\ prs.raw_text = <<"5", "O", "O">> => prs.outcome = "returned" /\ prs.ret = 500
        /\ prs.raw_text = <<"1", "0", "8", "0">> => prs.outcome = "returned" /\ prs.ret = 1080
        /\ prs.raw_text = <<"0">> => prs.outcome = "returned" /\ prs.ret = 0
        /\ prs.raw_text = <<"1", "0", "8", "1">> => prs.outcome = "ParseError"
        /\ prs.raw_text = <<"-", "1">> => prs.outcome = "ParseError"
        /\ prs.raw_text = <<"5", "x">> => prs.outcome = "OCRConfidenceError"

C29_Witness ==
    /\ Returned("parse_activity")
    /\ prs.raw_text = <<"5", "O", "O">>
    /\ prs.ret = 500

====
